---- MODULE Spec2Model ----
(***************************************************************************)
(* MonA / asic-control: discovery and enrichment core.                     *)
(*                                                                         *)
(*   registry  Store (UpsertDiscovery, UpsertObserved, UpdateEnrichment,   *)
(*             List, Subscribe, notifyLocked)                              *)
(*   main      runProbe, enqueueProbe, runScan's onResult, bus consumer    *)
(*   scanner   ScanSpec (producer, workers, progress ticker), enumeration  *)
(*   netutil   PreviewSpec, previewCIDR, parseRange                        *)
(*                                                                         *)
(* Strings are tokens; the string functions the code applies to them       *)
(* (ToLower, Contains, TrimSpace, Normalize) are tables over the tokens.   *)
(* Time is in seconds.                                                     *)
(***************************************************************************)
EXTENDS Integers, Sequences, FiniteSets, TLC

VARIABLES
    \* ---- registry.Store
    byIP,       \* s.byIP: map ip -> Device
    subs,       \* s.subs: the subscriber ids registered in the map
    chans,      \* the channel made for each subscriber: [len, closed]
    \* ---- the program around the store
    entry,      \* which main package runs: "part_000" or "cmd_core"
    now,        \* time.Now(), seconds
    probeCh,    \* probeCh: the queue of probe requests (ips)
    probeNext,  \* probeNext: ip -> next allowed probe time
    hist,       \* history: the last request accepted per ip, the last sweep's offers
    ppc,        \* per runProbe execution: position
    pip,        \* per runProbe execution: the ip probed
    pd,         \* per runProbe execution: d, the Device that store.Get returned
    pok,        \* per runProbe execution: AuthStatus ok, and how old, at its start
    pres,       \* per runProbe execution: what the prober returned
    \* ---- GET /api/stream/devices, one execution per subscriber id
    hpc,        \* position of the handler
    snap,       \* the last "devices" event it wrote: [n, devices]
    cancelled,  \* r.Context() is done
    \* ---- a caller of the store keeping what the store returned
    held,       \* per caller: the value the last store call handed back
    \* ---- Scanner.ScanSpec, one call
    sspec,      \* spec: the parts of the spec string
    spc,        \* position of the calling goroutine
    prev,       \* prev: what netutil.PreviewSpec returned
    part,       \* index of the next part of the spec
    iter,       \* the loop over the addresses of the current part
    jobs,       \* jobs: [q, closed]
    wpc,        \* per worker goroutine: position
    wip,        \* per worker goroutine: the address it probes
    sdone,      \* done
    tick,       \* the ticker and its goroutine: [stopped, pc]
    scancel,    \* ctx is done
    ret,        \* what ScanSpec returned
    probed,     \* addresses given to probeIP
    results,    \* addresses given to onResult
    prog,       \* onProgress calls: [n, done]
    \* ---- netutil.PreviewSpec and the enumerations on one input
    aspec,      \* the part
    apc,        \* what has been applied to it
    aprev,      \* its preview
    aout,       \* its addresses, as far as enumerated
    ait,        \* the loop that enumerates them
    \* ---- one call of a function of the program on one input
    arg,        \* the arguments
    out,        \* what it has returned or built so far
    fpc         \* position of the call

regVars   == <<byIP, subs, chans>>
probeVars == <<entry, now, probeCh, probeNext, hist, ppc, pip, pd, pok, pres>>
sseVars   == <<hpc, snap, cancelled>>
apiVars   == <<held>>
scanVars  == <<sspec, spc, prev, part, iter, jobs, wpc, wip, sdone, tick, scancel, ret,
               probed, results, prog>>
addrVars  == <<aspec, apc, aprev, aout, ait>>
callVars  == <<arg, out, fpc>>
netVars   == <<scanVars, addrVars, callVars>>
restVars  == <<sseVars, apiVars, netVars>>
hostVars  == <<regVars, probeVars, sseVars, apiVars, callVars>>
vars      == <<hostVars, netVars>>

(***************************************************************************)
(* Bounds of the model.                                                    *)
(***************************************************************************)
MaxClock == 600      \* the clock stops here
TickStep == 600      \* seconds between two readings of the clock
QueueCap   == 1        \* capacity of probeCh in the model (8192 in the code)

IPs == {"10.0.0.7"}

(***************************************************************************)
(* String tokens and the string functions applied to them.                 *)
(***************************************************************************)
ToLower(s) ==
    CASE s = "AnthillOS" -> "anthillos"
      [] s = "Vnish 1.2" -> "vnish 1.2"
      [] s = "<!DOCTYPE html><html></html>" -> "<!doctype html><html></html>"
      [] s = "<HTML>{\"a\":1}" -> "<html>{\"a\":1}"
      [] OTHER -> s

TrimSpace(s) == IF s = " " THEN "" ELSE s

\* strings.Contains(s, sub) for the substrings the program looks for
Contains(s, sub) ==
    CASE sub = "anthill"       -> s \in {"anthillos"}
      [] sub = "vnish"         -> s \in {"vnish 1.2"}
      [] sub = "brains"        -> FALSE
      [] sub = "html response" -> s \in {"html response (no json api)"}
      [] sub = "auth"          -> s \in {"auth", "auth,auth-int", "auth-int"}
      [] sub = "root"          -> s \in {"root", "stock:root/root", "stock:root/admin"}
      [] sub = "admin"         -> s \in {"admin", "stock:root/admin"}
      [] OTHER                 -> s = sub

\* modelnorm.Normalize: vendor and display model of a raw model string
Normalize(raw) ==
    LET s == TrimSpace(raw) IN
    CASE s = ""               -> [Vendor |-> "unknown",    Model |-> ""]
      [] s = "S19"            -> [Vendor |-> "antminer",   Model |-> "Antminer S19"]
      [] s = "Antminer S19"   -> [Vendor |-> "antminer",   Model |-> "Antminer S19"]
      [] s = "M30"            -> [Vendor |-> "whatsminer", Model |-> "Whatsminer M30"]
      [] s = "Whatsminer M30" -> [Vendor |-> "unknown",    Model |-> "WHATSMINER M30"]
      [] OTHER                -> [Vendor |-> "unknown",    Model |-> s]

\* strings.HasPrefix(s, prefix) for the prefixes the program looks for
HasPrefix(s, prefix) ==
    CASE prefix = "<!doctype html" -> s \in {"<!doctype html><html></html>"}
      [] prefix = "<html"          -> s \in {"<html>{\"a\":1}"}
      [] OTHER                     -> s = prefix

hasPort(ports, p) == \E i \in 1..Len(ports) : ports[i] = p

(***************************************************************************)
(* registry.Device and the Store's operations.                             *)
(***************************************************************************)
NewDevice(ip, mac, shardID, t) ==
    [IP |-> ip, MAC |-> mac, ShardID |-> shardID, Online |-> FALSE,
     FirstSeen |-> t, LastSeen |-> 0,
     Vendor |-> "", Model |-> "", Firmware |-> "", Worker |-> "",
     UptimeS |-> 0, HashrateTHS |-> 0, OpenPorts |-> <<>>, Confidence |-> 0,
     FansRPM |-> <<>>, TempsC |-> <<>>,
     AuthStatus |-> "", AuthUpdated |-> 0, AuthCredName |-> "", AuthError |-> ""]

ChanCap == 1

\* variant: a send that does not look at the channel's occupancy
SendAlways(c) == [c EXCEPT !.len = @ + 1]

\* select { case ch <- struct{}{}: default: }
SendNonBlocking(c) == IF c.len < ChanCap THEN [c EXCEPT !.len = @ + 1] ELSE c

\* variant: a mutation that signals nobody
notifyNobody(cs, registered) == cs

\* notifyLocked: a non-blocking send to every subscriber in s.subs
notifyLocked(cs, registered) ==
    [id \in DOMAIN cs |-> IF id \in registered THEN SendNonBlocking(cs[id]) ELSE cs[id]]

Put(m, ip, d) == [x \in (DOMAIN m) \cup {ip} |-> IF x = ip THEN d ELSE m[x]]

UpsertDiscoveryDevice(m, shardID, ip, mac, t) ==
    LET d == IF ip \in DOMAIN m THEN m[ip] ELSE NewDevice(ip, mac, shardID, t) IN
    [d EXCEPT !.MAC = IF mac # "" THEN mac ELSE @,
              !.ShardID = IF shardID # "" THEN shardID ELSE @,
              !.LastSeen = t]

\* variant: the given MAC is stored even when it is empty
UpsertObservedDeviceOverwrite(m, shardID, ip, mac, online, t) ==
    LET d == IF ip \in DOMAIN m THEN m[ip] ELSE NewDevice(ip, mac, shardID, t) IN
    [d EXCEPT !.MAC = mac,
              !.ShardID = IF shardID # "" THEN shardID ELSE @,
              !.Online = online,
              !.LastSeen = t]

UpsertObservedDevice(m, shardID, ip, mac, online, t) ==
    LET d == IF ip \in DOMAIN m THEN m[ip] ELSE NewDevice(ip, mac, shardID, t) IN
    [d EXCEPT !.MAC = IF mac # "" THEN mac ELSE @,
              !.ShardID = IF shardID # "" THEN shardID ELSE @,
              !.Online = online,
              !.LastSeen = t]

\* The three mutations as functions of the store, st = [m |-> byIP, cs |-> channels]:
\* each changes the map under s.mu and ends with notifyLocked.
UpsertDiscoveryStore(st, shardID, ip, mac, t) ==
    [m  |-> Put(st.m, ip, UpsertDiscoveryDevice(st.m, shardID, ip, mac, t)),
     cs |-> notifyLocked(st.cs, subs)]

\* variant: a device observed offline is dropped from the map
UpsertObservedStoreExpiring(st, shardID, ip, mac, online, t) ==
    [m  |-> IF online
            THEN Put(st.m, ip, UpsertObservedDevice(st.m, shardID, ip, mac, online, t))
            ELSE [x \in (DOMAIN st.m) \ {ip} |-> st.m[x]],
     cs |-> notifyLocked(st.cs, subs)]

UpsertObservedStore(st, shardID, ip, mac, online, t) ==
    [m  |-> Put(st.m, ip, UpsertObservedDevice(st.m, shardID, ip, mac, online, t)),
     cs |-> notifyLocked(st.cs, subs)]

\* UpdateEnrichment(ip, fn): fn runs under the lock, LastSeen is bumped
UpdateEnrichmentStore(st, ip, fn(_)) ==
    IF ip \in DOMAIN st.m
    THEN [m  |-> [st.m EXCEPT ![ip] = [fn(st.m[ip]) EXCEPT !.LastSeen = now]],
          cs |-> notifyLocked(st.cs, subs)]
    ELSE st

Store == [m |-> byIP, cs |-> chans]

SetStore(st) == byIP' = st.m /\ chans' = st.cs

UpsertDiscovery(shardID, ip, mac, t) ==
    SetStore(UpsertDiscoveryStore(Store, shardID, ip, mac, t))

UpsertObserved(shardID, ip, mac, online, t) ==
    SetStore(UpsertObservedStore(Store, shardID, ip, mac, online, t))

UpdateEnrichment(ip, fn(_)) ==
    SetStore(UpdateEnrichmentStore(Store, ip, fn))

\* List: cp := *d for every Device.  The copy has its own fields; its OpenPorts
\* slice shares the backing array of the stored Device when it has elements.
List(m) ==
    [ip \in DOMAIN m |-> [dev |-> m[ip], sharesPorts |-> Len(m[ip].OpenPorts) > 0]]

\* json.Marshal of a List: the devices by value
Marshal(list) == [ip \in DOMAIN list |-> list[ip].dev]

\* Get: (copy of the Device, found)
Get(m, ip) == IF ip \in DOMAIN m THEN [ok |-> TRUE, d |-> m[ip]]
              ELSE [ok |-> FALSE, d |-> NewDevice(ip, "", "", 0)]

(***************************************************************************)
(* What the vendor probers hand back to runProbe: the network decides it,  *)
(* so runProbe's inputs are drawn from these sets.                         *)
(***************************************************************************)
NoFacts ==
    [MAC |-> "", Model |-> "", Firmware |-> "", Worker |-> "",
     UptimeS |-> 0, HashrateTHS |-> 0, FansRPM |-> <<>>, TempsC |-> <<>>]

StockFacts ==
    { NoFacts,
      [NoFacts EXCEPT !.MAC = "aa:bb:cc:00:00:07", !.Model = "S19", !.Firmware = "stockfw",
                      !.Worker = "w1", !.UptimeS = 100, !.HashrateTHS = 95,
                      !.FansRPM = <<6000>>, !.TempsC = <<60>>],
      [NoFacts EXCEPT !.Model = " "] }

WhatsFacts ==
    { NoFacts,
      [NoFacts EXCEPT !.Model = "M30", !.UptimeS = 100, !.HashrateTHS = 95,
                      !.FansRPM = <<6000>>, !.TempsC = <<60>>] }

VnishFacts ==
    { NoFacts,
      [NoFacts EXCEPT !.Model = "S19", !.Firmware = "AnthillOS", !.Worker = "w1"] }

CredNames == {"stock:root/root"}

NoResult == [path |-> "", OK |-> FALSE, UsedCred |-> "", Error |-> "", facts |-> NoFacts]

ResultsOf(path, factSet, errors) ==
    { [path |-> path, OK |-> TRUE, UsedCred |-> c, Error |-> "", facts |-> f] :
          c \in CredNames, f \in factSet }
    \cup
    { [path |-> path, OK |-> FALSE, UsedCred |-> "", Error |-> e, facts |-> NoFacts] :
          e \in errors }

StockResults == ResultsOf("stock", StockFacts,
                          {"unauthorized", "html response (no json api)"})
WhatsResults == ResultsOf("whatsminer", WhatsFacts, {"unauthorized"})
VnishResults == ResultsOf("vnish", VnishFacts, {"unauthorized"})

(***************************************************************************)
(* runProbe: the closures it hands to UpdateEnrichment.                    *)
(***************************************************************************)
AntiFlapWindow == 600

IsZeroFacts(f) ==
    /\ f.MAC = "" /\ f.Worker = "" /\ f.Firmware = "" /\ f.Model = ""
    /\ f.HashrateTHS = 0 /\ f.UptimeS = 0
    /\ Len(f.FansRPM) = 0 /\ Len(f.TempsC) = 0

ApplyOffline(dd) ==
    [dd EXCEPT !.AuthStatus = "fail", !.AuthUpdated = now, !.AuthError = "offline"]

\* variant: the probe in progress is recorded under another word
MarkProbing(dd) ==
    [dd EXCEPT !.AuthStatus = "probing", !.AuthUpdated = now, !.AuthError = ""]

MarkTrying(dd) ==
    [dd EXCEPT !.AuthStatus = "trying", !.AuthUpdated = now, !.AuthError = ""]

ApplyWhatsOK(dd, wres) ==
    LET f == wres.facts IN
    [dd EXCEPT !.AuthStatus = "ok", !.AuthUpdated = now,
               !.AuthCredName = wres.UsedCred, !.AuthError = "",
               !.Vendor = "whatsminer",
               !.Model = IF f.Model # "" THEN f.Model ELSE @,
               !.UptimeS = IF f.UptimeS > 0 THEN f.UptimeS ELSE @,
               !.HashrateTHS = IF f.HashrateTHS > 0 THEN f.HashrateTHS ELSE @,
               !.FansRPM = IF Len(f.FansRPM) > 0 THEN f.FansRPM ELSE @,
               !.TempsC = IF Len(f.TempsC) > 0 THEN f.TempsC ELSE @]

ApplyWhatsFail(dd, wres) ==
    [dd EXCEPT !.AuthStatus = "fail", !.AuthUpdated = now,
               !.AuthCredName = wres.UsedCred, !.AuthError = wres.Error]

ApplyUnsupported(dd) ==
    [dd EXCEPT !.AuthStatus = "fail", !.AuthUpdated = now,
               !.AuthError = "unsupported vendor"]

ApplyStockNoFacts(dd, res) ==
    [dd EXCEPT !.AuthStatus = "fail", !.AuthUpdated = now,
               !.AuthCredName = res.UsedCred, !.AuthError = "ok but no parsable data"]

IsGenericVendor(v) == v = "" \/ v = "unknown" \/ v = "asic"

ApplyStockOK(dd, res) ==
    LET facts == res.facts
        n     == Normalize(facts.Model)
        v1    == IF IsGenericVendor(dd.Vendor) THEN "antminer" ELSE dd.Vendor
        v2    == IF facts.Model # "" /\ n.Model # "" /\ IsGenericVendor(v1)
                    /\ n.Vendor # "unknown"
                 THEN n.Vendor ELSE v1
    IN
    [dd EXCEPT !.AuthStatus = "ok", !.AuthUpdated = now,
               !.AuthCredName = res.UsedCred, !.AuthError = "",
               !.Vendor = v2,
               !.MAC = IF @ = "" /\ facts.MAC # "" THEN facts.MAC ELSE @,
               !.Model = IF facts.Model # ""
                         THEN (IF n.Model # "" THEN n.Model ELSE facts.Model)
                         ELSE @,
               !.Firmware = IF facts.Firmware # "" THEN facts.Firmware ELSE @,
               !.Worker = IF facts.Worker # "" THEN facts.Worker ELSE @,
               !.UptimeS = IF facts.UptimeS > 0 THEN facts.UptimeS ELSE @,
               !.HashrateTHS = IF facts.HashrateTHS > 0 THEN facts.HashrateTHS ELSE @,
               !.FansRPM = IF Len(facts.FansRPM) > 0 THEN facts.FansRPM ELSE @,
               !.TempsC = IF Len(facts.TempsC) > 0 THEN facts.TempsC ELSE @]

ApplyVnishOK(dd, vres) ==
    LET f == vres.facts
        n == Normalize(f.Model)
    IN
    [dd EXCEPT !.AuthStatus = "ok", !.AuthUpdated = now,
               !.AuthCredName = vres.UsedCred, !.AuthError = "",
               !.Vendor = IF IsGenericVendor(@) THEN "antminer" ELSE @,
               !.Model = IF f.Model # ""
                         THEN (IF n.Model # "" THEN n.Model ELSE f.Model)
                         ELSE @,
               !.Firmware = IF f.Firmware # "" THEN f.Firmware ELSE @,
               !.Worker = IF f.Worker # "" THEN f.Worker ELSE @,
               !.UptimeS = IF f.UptimeS > 0 THEN f.UptimeS ELSE @,
               !.HashrateTHS = IF f.HashrateTHS > 0 THEN f.HashrateTHS ELSE @,
               !.FansRPM = IF Len(f.FansRPM) > 0 THEN f.FansRPM ELSE @,
               !.TempsC = IF Len(f.TempsC) > 0 THEN f.TempsC ELSE @]

\* variant: the failure is withheld for any recent status, not only for "ok"
ApplyFailRecent(dd, res) ==
    IF now - dd.AuthUpdated < AntiFlapWindow
    THEN [dd EXCEPT !.AuthError = res.Error]
    ELSE [dd EXCEPT !.AuthStatus = "fail", !.AuthUpdated = now,
                    !.AuthCredName = res.UsedCred, !.AuthError = res.Error]

\* "Avoid auth flapping": the closure of the failing stock path
ApplyFail(dd, res) ==
    IF ToLower(dd.AuthStatus) = "ok" /\ now - dd.AuthUpdated < AntiFlapWindow
    THEN [dd EXCEPT !.AuthError = res.Error]
    ELSE [dd EXCEPT !.AuthStatus = "fail", !.AuthUpdated = now,
                    !.AuthCredName = res.UsedCred, !.AuthError = res.Error]

\* the vnish/anthill fallback is tried after a failing stock probe
WantsVnish(d, res) ==
    \/ Contains(ToLower(d.Firmware), "anthill")
    \/ Contains(ToLower(res.Error), "html response")
    \/ Contains(ToLower(d.Firmware), "vnish")

ProbeVendor(d) == ToLower(TrimSpace(d.Vendor))

\* variant: a device without a vendor has no prober
StockClassVendorNamed(v) == v = "antminer" \/ v = "asic" \/ v = "unknown"

StockClassVendor(v) == v = "antminer" \/ v = "asic" \/ v = "" \/ v = "unknown"

(***************************************************************************)
(* scanner.Result as probeIP returns it, and the score it carries.         *)
(***************************************************************************)
\* variant: the sum is returned as it is
scoreUnclipped(r) ==
    (IF r.Vendor # "" /\ r.Vendor # "asic" THEN 40 ELSE IF r.Vendor = "asic" THEN 15 ELSE 0)
    + (IF r.Vendor = "antminer" /\ (hasPort(r.Open, 80) \/ hasPort(r.Open, 443)) THEN 15 ELSE 0)
    + (IF hasPort(r.Open, 4028) THEN 35 ELSE 0)
    + (IF hasPort(r.Open, 80) \/ hasPort(r.Open, 443) THEN 10 ELSE 0)
    + (IF r.Worker # "" THEN 10 ELSE 0)
    + (IF r.HashrateTHS > 0 THEN 5 ELSE 0)

score(r) ==
    LET s1 == IF r.Vendor # "" /\ r.Vendor # "asic" THEN 40
              ELSE IF r.Vendor = "asic" THEN 15 ELSE 0
        s2 == IF r.Vendor = "antminer" /\ (hasPort(r.Open, 80) \/ hasPort(r.Open, 443))
              THEN 15 ELSE 0
        s3 == IF hasPort(r.Open, 4028) THEN 35 ELSE 0
        s4 == IF hasPort(r.Open, 80) \/ hasPort(r.Open, 443) THEN 10 ELSE 0
        s5 == IF r.Worker # "" THEN 10 ELSE 0
        s6 == IF r.HashrateTHS > 0 THEN 5 ELSE 0
        total == s1 + s2 + s3 + s4 + s5 + s6
    IN  IF total > 100 THEN 100 ELSE total

\* probeIP, "Decide if this is an ASIC candidate": the model string is normalized
\* and a generic vendor is replaced by the vendor of the model
NormalizeResult(r) ==
    IF r.Model = "" THEN r
    ELSE LET n == Normalize(r.Model) IN
         [r EXCEPT !.Model = IF n.Model # "" THEN n.Model ELSE @,
                   !.Vendor = IF (@ = "" \/ @ = "asic" \/ @ = "unknown") /\ n.Vendor # "unknown"
                              THEN n.Vendor ELSE @]

\* the tail of probeIP: Online, Confidence and IsASIC of a fingerprinted host
Scored(r) ==
    [r EXCEPT !.Online = Len(r.Open) > 0,
              !.Confidence = score(r),
              !.IsASIC = score(r) >= 60]

BlankResult(ip, open) ==
    [IP |-> ip, Online |-> FALSE, Open |-> open, Vendor |-> "", Firmware |-> "",
     Model |-> "", IsASIC |-> FALSE, Confidence |-> 0, Worker |-> "", UptimeS |-> 0,
     HashrateTHS |-> 0, FansRPM |-> <<>>, TempsC |-> <<>>]

\* hosts a scan can find: ScanSpec calls onResult only for r.Online or open ports
ScanResults ==
    UNION { { Scored(BlankResult(ip, <<80>>)),
              Scored([BlankResult(ip, <<80, 4028>>) EXCEPT
                          !.Vendor = "antminer", !.Model = "Antminer S19",
                          !.Worker = "w1", !.UptimeS = 100, !.HashrateTHS = 95,
                          !.FansRPM = <<6000>>, !.TempsC = <<60>>]),
              Scored([BlankResult(ip, <<80, 4028>>) EXCEPT
                          !.Vendor = "whatsminer", !.Model = "Whatsminer M30"]),
              Scored([BlankResult(ip, <<80>>) EXCEPT !.Vendor = "avalonminer"]) }
            : ip \in IPs }

\* runScan's onResult closure in the main package of src/unnamed/part_000
ApplyScanResult(d, res) ==
    [d EXCEPT !.OpenPorts = res.Open,
              !.Confidence = res.Confidence,
              !.Vendor = IF res.Vendor # "" THEN res.Vendor ELSE @,
              !.Model = IF res.Model # "" THEN res.Model ELSE @,
              !.Firmware = IF res.Firmware # "" THEN res.Firmware ELSE @,
              !.Worker = IF res.Worker # "" THEN res.Worker ELSE @,
              !.UptimeS = IF res.UptimeS > 0 THEN res.UptimeS ELSE @,
              !.HashrateTHS = IF res.HashrateTHS > 0 THEN res.HashrateTHS ELSE @,
              !.FansRPM = IF Len(res.FansRPM) > 0 THEN res.FansRPM ELSE @,
              !.TempsC = IF Len(res.TempsC) > 0 THEN res.TempsC ELSE @]

\* runScan's onResult closure in cmd/core/main.go
ApplyScanResultCore(d, res) ==
    [d EXCEPT !.OpenPorts = res.Open,
              !.Confidence = res.Confidence,
              !.Vendor = res.Vendor,
              !.Model = res.Model,
              !.Firmware = res.Firmware,
              !.Worker = res.Worker,
              !.UptimeS = res.UptimeS,
              !.HashrateTHS = res.HashrateTHS]

(***************************************************************************)
(* enqueueProbe: per-IP backoff, then a non-blocking send to probeCh.      *)
(***************************************************************************)
DefaultMinInterval == 30
ScanMinInterval    == 15

\* variant: the interval of the call is not used
EnqueueDefaultInterval(s, ip, minInterval) ==
    IF ip = "" \/ now < s.next[ip] THEN s
    ELSE [ch   |-> IF Len(s.ch) < QueueCap THEN Append(s.ch, ip) ELSE s.ch,
          next |-> [s.next EXCEPT ![ip] = now + DefaultMinInterval],
          acc  |-> IF Len(s.ch) < QueueCap
                   THEN [s.acc EXCEPT ![ip] = [n |-> IF @.n < 2 THEN @.n + 1 ELSE @.n,
                                               t |-> now, mi |-> minInterval]]
                   ELSE s.acc]

\* enqueueProbe on s = [ch |-> probeCh, next |-> probeNext, acc |-> the last
\* request accepted into the queue per ip: its time, its interval and whether
\* it was the first (n = 1) or a later one (n = 2)]
Enqueue(s, ip, minInterval) ==
    LET mi == IF minInterval <= 0 THEN DefaultMinInterval ELSE minInterval IN
    IF ip = "" \/ now < s.next[ip] THEN s
    ELSE [ch   |-> IF Len(s.ch) < QueueCap THEN Append(s.ch, ip) ELSE s.ch,
          next |-> [s.next EXCEPT ![ip] = now + mi],
          acc  |-> IF Len(s.ch) < QueueCap
                   THEN [s.acc EXCEPT ![ip] = [n |-> IF @.n < 2 THEN @.n + 1 ELSE @.n,
                                               t |-> now, mi |-> mi]]
                   ELSE s.acc]

Sched == [ch |-> probeCh, next |-> probeNext, acc |-> hist.accepted]

enqueueProbe(ip, minInterval) ==
    LET s == Enqueue(Sched, ip, minInterval) IN
    /\ probeCh' = s.ch
    /\ probeNext' = s.next
    /\ hist' = [hist EXCEPT !.accepted = s.acc]

(***************************************************************************)
(* The program around the store: clock, scan callback, bus consumer,       *)
(* enrichment workers and runProbe.                                        *)
(***************************************************************************)
\* the fields of d that runProbe reads after store.Get
ProbeView(d) ==
    [Online |-> d.Online, Vendor |-> d.Vendor, Firmware |-> d.Firmware,
     OpenPorts |-> d.OpenPorts]

\* how runProbe found the device's AuthStatus when it started
AuthAge(d) ==
    IF ToLower(d.AuthStatus) # "ok" THEN "not ok"
    ELSE IF now - d.AuthUpdated < AntiFlapWindow THEN "recent ok" ELSE "old ok"

NoDev == ProbeView(NewDevice("", "", "", 0))

schedVars == <<probeCh, probeNext, hist>>
runVars   == <<ppc, pip, pd, pok, pres>>

\* The clock.  Behaviours are invariant under a shift of the time origin, so the
\* clock is started by the first device entering the registry.
Tick ==
    /\ DOMAIN byIP # {}
    /\ now + TickStep <= MaxClock
    /\ now' = now + TickStep
    /\ UNCHANGED <<regVars, entry, schedVars, runVars, restVars>>

\* runScan's onResult: UpsertDiscovery, UpsertObserved and UpdateEnrichment, one
\* after the other.  Each store call is atomic and the first two write only
\* ShardID, Online and LastSeen, which no other writer of the device reads, so
\* the three are taken as one step.
onResultStore(res, fn(_)) ==
    LET ip == res.IP
        s1 == UpsertDiscoveryStore(Store, "scanner", ip, "", now)
        s2 == UpsertObservedStore(s1, "scanner", ip, "", res.Online, now)
    IN  UpdateEnrichmentStore(s2, ip, fn)

\* onResult of the main package of src/unnamed/part_000, with its auto-enrich request
OnResult ==
    /\ entry = "part_000"
    /\ \E res \in ScanResults :
          /\ SetStore(onResultStore(res, LAMBDA d : ApplyScanResult(d, res)))
          /\ IF res.IsASIC
             THEN enqueueProbe(res.IP, ScanMinInterval)
             ELSE UNCHANGED schedVars
    /\ UNCHANGED <<subs, entry, now, runVars, restVars>>

\* onResult of cmd/core/main.go
OnResultCore ==
    /\ entry = "cmd_core"
    /\ \E res \in ScanResults :
          SetStore(onResultStore(res, LAMBDA d : ApplyScanResultCore(d, res)))
    /\ UNCHANGED <<subs, entry, now, schedVars, runVars, restVars>>

BusShards == {"scanner"}
BusMACs   == {"", "aa:bb:cc:00:00:07"}

\* bus consumer: events.NetworkDeviceDiscovered
BusDiscovered ==
    /\ \E shard \in BusShards, ip \in IPs, mac \in BusMACs :
          UpsertDiscovery(shard, ip, mac, now)
    /\ UNCHANGED <<subs, probeVars, restVars>>

\* bus consumer: events.NetworkObserved
BusObserved ==
    /\ \E shard \in BusShards, ip \in IPs, mac \in BusMACs, online \in BOOLEAN :
          UpsertObserved(shard, ip, mac, online, now)
    /\ UNCHANGED <<subs, probeVars, restVars>>

\* enrichment worker: req := <-probeCh
WorkerDequeue(w) ==
    /\ entry = "part_000"
    /\ ppc[w] = "idle"
    /\ Len(probeCh) > 0
    /\ pip' = [pip EXCEPT ![w] = Head(probeCh)]
    /\ probeCh' = Tail(probeCh)
    /\ ppc' = [ppc EXCEPT ![w] = "start"]
    /\ UNCHANGED <<regVars, entry, now, probeNext, hist, pd, pok, pres, restVars>>

\* POST /api/devices/{ip}/probe
ManualProbe(w) ==
    /\ entry = "part_000"
    /\ ppc[w] = "idle"
    /\ \E ip \in IPs : pip' = [pip EXCEPT ![w] = ip]
    /\ ppc' = [ppc EXCEPT ![w] = "start"]
    /\ UNCHANGED <<regVars, entry, now, schedVars, pd, pok, pres, restVars>>

ClockStep == 30     \* seconds between two readings of the scheduler's clock
ClockEnd  == 60     \* the scheduler's clock stops here

SweepMinInterval == 60

\* the clock at the resolution of the backoff intervals
ClockAdvance ==
    /\ now + ClockStep <= ClockEnd
    /\ now' = now + ClockStep
    /\ UNCHANGED <<regVars, entry, schedVars, runVars, restVars>>

\* periodic retry: the devices of store.List() that pass the three tests
SweepPicks(list) ==
    { ip \in DOMAIN list :
        LET d == list[ip].dev IN
        /\ d.Online
        /\ ~(ToLower(d.Vendor) # "antminer" /\ ToLower(d.Vendor) # "asic" /\ d.Vendor # "")
        /\ (d.MAC = "" \/ d.Worker = "" \/ d.Firmware = "" \/ Len(d.FansRPM) = 0) }

RECURSIVE EnqueueAll(_, _, _)
EnqueueAll(s, order, minInterval) ==
    IF order = << >> THEN s
    ELSE EnqueueAll(Enqueue(s, Head(order), minInterval), Tail(order), minInterval)

\* periodic retry, one tick: the picked devices go to enqueueProbe in the
\* order in which the map is ranged over
Sweep ==
    /\ entry = "part_000"
    /\ LET picks == SweepPicks(List(byIP)) IN
       \E order \in [1..Cardinality(picks) -> picks] :
          /\ \A i, j \in 1..Cardinality(picks) : order[i] = order[j] => i = j
          /\ LET s == EnqueueAll(Sched, order, SweepMinInterval) IN
              /\ probeCh' = s.ch
              /\ probeNext' = s.next
              /\ hist' = [accepted |-> s.acc, offered |-> picks]
    /\ UNCHANGED <<regVars, entry, now, runVars, restVars>>

\* runProbe: d, ok := store.Get(ip)
RunProbeGet(w) ==
    /\ ppc[w] = "start"
    /\ LET g == Get(byIP, pip[w]) IN
        /\ pd' = [pd EXCEPT ![w] = ProbeView(g.d)]
        /\ pok' = [pok EXCEPT ![w] = IF g.ok THEN AuthAge(g.d) ELSE ""]
        /\ IF ~g.ok
           THEN /\ ppc' = [ppc EXCEPT ![w] = "done"]
                /\ pres' = [pres EXCEPT ![w] =
                               [NoResult EXCEPT !.path = "notfound", !.Error = "not found"]]
           ELSE /\ ppc' = [ppc EXCEPT ![w] = IF g.d.Online THEN "got" ELSE "offline"]
                /\ UNCHANGED pres
    /\ UNCHANGED <<regVars, entry, now, schedVars, pip, restVars>>

\* runProbe: the device is offline
RunProbeOffline(w) ==
    /\ ppc[w] = "offline"
    /\ UpdateEnrichment(pip[w], ApplyOffline)
    /\ pres' = [pres EXCEPT ![w] = [NoResult EXCEPT !.path = "offline", !.Error = "offline"]]
    /\ ppc' = [ppc EXCEPT ![w] = "done"]
    /\ UNCHANGED <<subs, entry, now, schedVars, pip, pd, pok, restVars>>

\* runProbe: mark trying
RunProbeMarkTrying(w) ==
    /\ ppc[w] = "got"
    /\ UpdateEnrichment(pip[w], MarkTrying)
    /\ ppc' = [ppc EXCEPT ![w] = "trying"]
    /\ UNCHANGED <<subs, entry, now, schedVars, pip, pd, pok, pres, restVars>>

\* runProbe: v == "whatsminer"
RunProbeWhatsminer(w) ==
    /\ ppc[w] = "trying"
    /\ ProbeVendor(pd[w]) = "whatsminer"
    /\ \E wres \in WhatsResults :
          /\ IF wres.OK
             THEN UpdateEnrichment(pip[w], LAMBDA dd : ApplyWhatsOK(dd, wres))
             ELSE UpdateEnrichment(pip[w], LAMBDA dd : ApplyWhatsFail(dd, wres))
          /\ pres' = [pres EXCEPT ![w] = wres]
    /\ ppc' = [ppc EXCEPT ![w] = "done"]
    /\ UNCHANGED <<subs, entry, now, schedVars, pip, pd, pok, restVars>>

\* runProbe: a vendor with no prober
RunProbeUnsupported(w) ==
    /\ ppc[w] = "trying"
    /\ ProbeVendor(pd[w]) # "whatsminer"
    /\ ~StockClassVendor(ProbeVendor(pd[w]))
    /\ UpdateEnrichment(pip[w], ApplyUnsupported)
    /\ pres' = [pres EXCEPT ![w] = [NoResult EXCEPT !.path = "unsupported",
                                       !.Error = "unsupported vendor (antminer first)"]]
    /\ ppc' = [ppc EXCEPT ![w] = "done"]
    /\ UNCHANGED <<subs, entry, now, schedVars, pip, pd, pok, restVars>>

\* runProbe: res := httpapi.ProbeAntminerSchemes(...) and what follows it
RunProbeStock(w) ==
    /\ ppc[w] = "trying"
    /\ StockClassVendor(ProbeVendor(pd[w]))
    /\ \E res \in StockResults :
          /\ pres' = [pres EXCEPT ![w] = res]
          /\ IF res.OK
             THEN /\ IF IsZeroFacts(res.facts)
                     THEN UpdateEnrichment(pip[w], LAMBDA dd : ApplyStockNoFacts(dd, res))
                     ELSE UpdateEnrichment(pip[w], LAMBDA dd : ApplyStockOK(dd, res))
                  /\ ppc' = [ppc EXCEPT ![w] = "done"]
             ELSE IF WantsVnish(pd[w], res)
                  THEN /\ ppc' = [ppc EXCEPT ![w] = "vnish"]
                       /\ UNCHANGED <<byIP, chans>>
                  ELSE /\ UpdateEnrichment(pip[w], LAMBDA dd : ApplyFail(dd, res))
                       /\ ppc' = [ppc EXCEPT ![w] = "done"]
    /\ UNCHANGED <<subs, entry, now, schedVars, pip, pd, pok, restVars>>

\* runProbe: vres := vnishhttp.Probe(...) after a failing stock probe
RunProbeVnish(w) ==
    /\ ppc[w] = "vnish"
    /\ \E vres \in VnishResults :
          IF vres.OK
          THEN /\ UpdateEnrichment(pip[w], LAMBDA dd : ApplyVnishOK(dd, vres))
               /\ pres' = [pres EXCEPT ![w] = vres]
          ELSE /\ UpdateEnrichment(pip[w], LAMBDA dd : ApplyFail(dd, pres[w]))
               /\ UNCHANGED pres
    /\ ppc' = [ppc EXCEPT ![w] = "done"]
    /\ UNCHANGED <<subs, entry, now, schedVars, pip, pd, pok, restVars>>

\* runProbe has returned; the worker (or the handler) goes on
RunProbeReturn(w) ==
    /\ ppc[w] = "done"
    /\ ppc' = [ppc EXCEPT ![w] = "idle"]
    /\ pip' = [pip EXCEPT ![w] = ""]
    /\ pd' = [pd EXCEPT ![w] = NoDev]
    /\ pok' = [pok EXCEPT ![w] = ""]
    /\ pres' = [pres EXCEPT ![w] = NoResult]
    /\ UNCHANGED <<regVars, entry, now, schedVars, restVars>>

(***************************************************************************)
(* Subscribers of the store: Subscribe and GET /api/stream/devices.        *)
(***************************************************************************)
MaxSends == 2      \* the count of "devices" events in snap saturates here

NewChan == [len |-> 0, closed |-> FALSE]

AddChan(cs, id) == [x \in (DOMAIN cs) \cup {id} |-> IF x = id THEN NewChan ELSE cs[x]]

\* ch := store.Subscribe(ctx): the channel is made and registered under subMu
SseSubscribe(c) ==
    /\ hpc[c] = "new"
    /\ chans' = AddChan(chans, c)
    /\ subs' = subs \cup {c}
    /\ hpc' = [hpc EXCEPT ![c] = "send"]
    /\ UNCHANGED <<byIP, probeVars, snap, cancelled, apiVars, netVars>>

\* send(): json.Marshal(store.List()) written as one "devices" event
SseSend(c) ==
    /\ hpc[c] = "send"
    /\ snap' = [snap EXCEPT ![c] = [n |-> IF @.n < MaxSends THEN @.n + 1 ELSE @.n,
                                    devices |-> Marshal(List(byIP))]]
    /\ hpc' = [hpc EXCEPT ![c] = "wait"]
    /\ UNCHANGED <<regVars, probeVars, cancelled, apiVars, netVars>>

\* case <-ch: a queued signal, or the zero value of a closed channel
SseWake(c) ==
    /\ hpc[c] = "wait"
    /\ chans[c].len > 0 \/ chans[c].closed
    /\ chans' = [chans EXCEPT ![c].len = IF @ > 0 THEN @ - 1 ELSE 0]
    /\ hpc' = [hpc EXCEPT ![c] = "send"]
    /\ UNCHANGED <<byIP, subs, probeVars, snap, cancelled, apiVars, netVars>>

\* case <-heartbeat.C: a ping event, no state of the store involved
SseHeartbeat(c) ==
    /\ hpc[c] = "wait"
    /\ UNCHANGED vars

\* the client goes away: r.Context() is cancelled
SseCancel(c) ==
    /\ hpc[c] # "new"
    /\ ~cancelled[c]
    /\ cancelled' = [cancelled EXCEPT ![c] = TRUE]
    /\ UNCHANGED <<regVars, probeVars, hpc, snap, apiVars, netVars>>

\* the goroutine of Subscribe: <-ctx.Done(); delete(s.subs, id); close(ch)
SubscribeCleanup(c) ==
    /\ cancelled[c]
    /\ c \in subs
    /\ subs' = subs \ {c}
    /\ chans' = [chans EXCEPT ![c].closed = TRUE]
    /\ UNCHANGED <<byIP, probeVars, sseVars, apiVars, netVars>>

\* case <-ctx.Done(): return
SseReturn(c) ==
    /\ hpc[c] = "wait"
    /\ cancelled[c]
    /\ hpc' = [hpc EXCEPT ![c] = "returned"]
    /\ UNCHANGED <<regVars, probeVars, snap, cancelled, apiVars, netVars>>

(***************************************************************************)
(* A caller of the store that keeps what UpsertDiscovery, UpsertObserved   *)
(* and List return, and writes to it.                                      *)
(***************************************************************************)
NoHandle == [kind |-> "none", ip |-> "", list |-> << >>]

\* return d: the *Device stored in s.byIP
Pointer(ip) == [kind |-> "ptr", ip |-> ip, list |-> << >>]

ApiUpsertDiscovery(c) ==
    /\ \E ip \in IPs, mac \in {"", "aa:bb:cc:00:00:07"} :
          /\ UpsertDiscovery("scanner", ip, mac, now)
          /\ held' = [held EXCEPT ![c] = Pointer(ip)]
    /\ UNCHANGED <<subs, probeVars, sseVars, netVars>>

ApiUpsertObserved(c) ==
    /\ \E ip \in IPs, online \in BOOLEAN :
          /\ UpsertObserved("scanner", ip, "", online, now)
          /\ held' = [held EXCEPT ![c] = Pointer(ip)]
    /\ UNCHANGED <<subs, probeVars, sseVars, netVars>>

ApiList(c) ==
    /\ held' = [held EXCEPT ![c] = [kind |-> "list", ip |-> "", list |-> List(byIP)]]
    /\ UNCHANGED <<regVars, probeVars, sseVars, netVars>>

\* a slice assigned to the stored Device is a new array: copies handed out
\* earlier keep the old one
Unshare(h, ip) ==
    IF h.kind = "list" /\ ip \in DOMAIN h.list
    THEN [h EXCEPT !.list[ip].sharesPorts = FALSE]
    ELSE h

\* d.Worker = ..., d.OpenPorts = []int{80} through the pointer an Upsert returned
CallerWritesPointer(c) ==
    /\ held[c].kind = "ptr"
    /\ LET ip == held[c].ip IN
          \/ /\ byIP' = [byIP EXCEPT ![ip].Worker = "w2"]
             /\ UNCHANGED held
          \/ /\ byIP' = [byIP EXCEPT ![ip].OpenPorts = <<80>>]
             /\ held' = [x \in DOMAIN held |-> Unshare(held[x], ip)]
    /\ UNCHANGED <<subs, chans, probeVars, sseVars, netVars>>

\* cp.Worker = ... on a Device that List returned
CallerWritesCopy(c) ==
    /\ held[c].kind = "list"
    /\ \E ip \in DOMAIN held[c].list :
          held' = [held EXCEPT ![c].list[ip].dev.Worker = "w2"]
    /\ UNCHANGED <<regVars, probeVars, sseVars, netVars>>

\* h is a List result whose copy of ip still has the stored Device's port array
SharesPorts(h, ip) ==
    h.kind = "list" /\ ip \in DOMAIN h.list /\ h.list[ip].sharesPorts

\* cp.OpenPorts[0] = 443 on a Device that List returned: the write lands in the
\* array, which the stored Device and the other copies of it may share
CallerWritesPort(c) ==
    /\ held[c].kind = "list"
    /\ \E ip \in DOMAIN held[c].list :
          /\ Len(held[c].list[ip].dev.OpenPorts) > 0
          /\ held' = [x \in DOMAIN held |->
                        IF x = c \/ (SharesPorts(held[c], ip) /\ SharesPorts(held[x], ip))
                        THEN [held[x] EXCEPT !.list[ip].dev.OpenPorts[1] = 443]
                        ELSE held[x]]
          /\ IF SharesPorts(held[c], ip)
             THEN byIP' = [byIP EXCEPT ![ip].OpenPorts[1] = 443]
             ELSE UNCHANGED byIP
    /\ UNCHANGED <<subs, chans, probeVars, sseVars, netVars>>

(***************************************************************************)
(* IPv4 addresses (net.IP.To4(): four bytes), netutil and the scanner's    *)
(* enumeration.  A spec string is the sequence of its comma-separated      *)
(* parts, each part already parsed: a CIDR (address, prefix length), an    *)
(* A-B range, or a part that does not parse.  uint32 and int values are    *)
(* pairs <<high, low>> of 16-bit halves, value high * 65536 + low.         *)
(* The Samples of a preview (display only) are left out.                   *)
(***************************************************************************)
MaxEnum == 512     \* an enumeration is followed for this many addresses

NoIP == << >>

Cidr(ip, bits) == [kind |-> "cidr", ok |-> TRUE, ip |-> ip, bits |-> bits, a |-> NoIP, b |-> NoIP]
Range(a, b)    == [kind |-> "range", ok |-> TRUE, ip |-> NoIP, bits |-> 0, a |-> a, b |-> b]
BadCidr        == [kind |-> "cidr", ok |-> FALSE, ip |-> NoIP, bits |-> 0, a |-> NoIP, b |-> NoIP]
BadRange       == [kind |-> "range", ok |-> FALSE, ip |-> NoIP, bits |-> 0, a |-> NoIP, b |-> NoIP]
Blank          == [kind |-> "blank", ok |-> TRUE, ip |-> NoIP, bits |-> 0, a |-> NoIP, b |-> NoIP]

RECURSIVE Pow2(_)
Pow2(n) == IF n = 0 THEN 1 ELSE 2 * Pow2(n - 1)

\* how many bits of a /bits mask fall into byte i
MaskBits(bits, i) ==
    LET r == bits - 8 * (i - 1) IN IF r < 0 THEN 0 ELSE IF r > 8 THEN 8 ELSE r

\* ip.Mask(n.Mask)
Mask(ip, bits) == [i \in 1..4 |-> ip[i] - (ip[i] % Pow2(8 - MaskBits(bits, i)))]

\* broadcast[i] = network[i] | ^mask[i]
Broadcast(network, bits) == [i \in 1..4 |-> network[i] + Pow2(8 - MaskBits(bits, i)) - 1]

inc4(ip) ==
    IF ip[4] # 255 THEN <<ip[1], ip[2], ip[3], ip[4] + 1>>
    ELSE IF ip[3] # 255 THEN <<ip[1], ip[2], ip[3] + 1, 0>>
    ELSE IF ip[2] # 255 THEN <<ip[1], ip[2] + 1, 0, 0>>
    ELSE <<(ip[1] + 1) % 256, 0, 0, 0>>

dec4(ip) ==
    IF ip[4] # 0 THEN <<ip[1], ip[2], ip[3], ip[4] - 1>>
    ELSE IF ip[3] # 0 THEN <<ip[1], ip[2], ip[3] - 1, 255>>
    ELSE IF ip[2] # 0 THEN <<ip[1], ip[2] - 1, 255, 255>>
    ELSE <<(ip[1] + 255) % 256, 255, 255, 255>>

equal4(a, b) == a[1] = b[1] /\ a[2] = b[2] /\ a[3] = b[3] /\ a[4] = b[4]

\* true when a is less than b, byte by byte
bytesLE(a, b) ==
    \E i \in 1..4 : a[i] < b[i] /\ \A j \in 1..(i - 1) : a[j] = b[j]

ipToU32(ip) == <<ip[1] * 256 + ip[2], ip[3] * 256 + ip[4]>>

u32ToIP(v) == <<v[1] \div 256, v[1] % 256, v[2] \div 256, v[2] % 256>>

LessN(x, y) == x[1] < y[1] \/ (x[1] = y[1] /\ x[2] < y[2])

AddN(x, y) == <<x[1] + y[1] + ((x[2] + y[2]) \div 65536), (x[2] + y[2]) % 65536>>

\* ip++ on a uint32
IncU32(v) == IF v[2] < 65535 THEN <<v[1], v[2] + 1>> ELSE <<(v[1] + 1) % 65536, 0>>

ToN(n) == <<n \div 65536, n % 65536>>

\* bi - ai, or 0 when bi < ai
distance4(a, b) ==
    LET ai == ipToU32(a)
        bi == ipToU32(b)
    IN  IF LessN(bi, ai) THEN ToN(0)
        ELSE IF bi[2] >= ai[2] THEN <<bi[1] - ai[1], bi[2] - ai[2]>>
        ELSE <<bi[1] - ai[1] - 1, bi[2] + 65536 - ai[2]>>

\* ip.String() and net.ParseIP(s).To4(): dotted text and back
String(ip) == [dotted |-> ip]

ParseIP(s) == s.dotted

\* the empty string of a First or Last that was not set
NoText == [dotted |-> NoIP]

Preview(valid, err, total, first, last) ==
    [Valid |-> valid, Error |-> err, TotalHosts |-> total, First |-> first, Last |-> last]

\* variant: a block that does not parse is passed over as an empty one
previewCIDRLenient(c) ==
    IF ~c.ok THEN Preview(TRUE, "", ToN(0), NoText, NoText)
    ELSE LET start == inc4(Mask(c.ip, c.bits))
             end   == dec4(Broadcast(Mask(c.ip, c.bits), c.bits))
         IN  IF bytesLE(end, start) THEN Preview(TRUE, "", ToN(0), NoText, NoText)
             ELSE Preview(TRUE, "", AddN(distance4(start, end), ToN(1)),
                          String(start), String(end))

previewCIDR(c) ==
    IF ~c.ok THEN Preview(FALSE, "invalid CIDR address", ToN(0), NoText, NoText)
    ELSE LET network   == Mask(c.ip, c.bits)
             broadcast == Broadcast(network, c.bits)
             start     == inc4(network)
             end       == dec4(broadcast)
         IN  IF bytesLE(end, start) THEN Preview(TRUE, "", ToN(0), NoText, NoText)
             ELSE Preview(TRUE, "", AddN(distance4(start, end), ToN(1)),
                          String(start), String(end))

\* variant: a range whose end precedes its start is refused
parseRangeStrict(r) ==
    IF ~r.ok \/ bytesLE(r.b, r.a)
    THEN [err |-> "bad IPv4 range", first |-> NoIP, last |-> NoIP, TotalHosts |-> ToN(0)]
    ELSE [err |-> "", first |-> r.a, last |-> r.b,
          TotalHosts |-> AddN(distance4(r.a, r.b), ToN(1))]

parseRange(r) ==
    IF ~r.ok THEN [err |-> "bad IPv4 range", first |-> NoIP, last |-> NoIP, TotalHosts |-> ToN(0)]
    ELSE IF bytesLE(r.b, r.a)
    THEN [err |-> "", first |-> r.a, last |-> r.b, TotalHosts |-> ToN(0)]
    ELSE [err |-> "", first |-> r.a, last |-> r.b,
          TotalHosts |-> AddN(distance4(r.a, r.b), ToN(1))]

\* total += ...; first and last widen
Widen(acc, total, f, l) ==
    [total |-> AddN(acc.total, total),
     first |-> IF f = NoIP THEN acc.first
               ELSE IF acc.first = NoIP \/ bytesLE(f, acc.first) THEN f ELSE acc.first,
     last  |-> IF l = NoIP THEN acc.last
               ELSE IF acc.last = NoIP \/ bytesLE(acc.last, l) THEN l ELSE acc.last]

RECURSIVE PreviewParts(_, _)
PreviewParts(parts, acc) ==
    IF parts = << >>
    THEN Preview(TRUE, "", acc.total, String(acc.first), String(acc.last))
    ELSE LET p    == Head(parts)
             rest == Tail(parts)
         IN  IF p.kind = "blank" THEN PreviewParts(rest, acc)
             ELSE IF p.kind = "cidr"
             THEN LET pr == previewCIDR(p) IN
                  IF ~pr.Valid THEN Preview(FALSE, pr.Error, ToN(0), NoText, NoText)
                  ELSE IF pr.TotalHosts = ToN(0) THEN PreviewParts(rest, acc)
                  ELSE PreviewParts(rest, Widen(acc, pr.TotalHosts,
                                                ParseIP(pr.First), ParseIP(pr.Last)))
             ELSE LET rs == parseRange(p) IN
                  IF rs.err # "" THEN Preview(FALSE, rs.err, ToN(0), NoText, NoText)
                  ELSE IF rs.TotalHosts = ToN(0) THEN PreviewParts(rest, acc)
                  ELSE PreviewParts(rest, Widen(acc, rs.TotalHosts, rs.first, rs.last))

PreviewSpec(spec) ==
    IF spec = << >> THEN Preview(FALSE, "empty", ToN(0), NoText, NoText)
    ELSE PreviewParts(spec, [total |-> ToN(0), first |-> NoIP, last |-> NoIP])

parseRangeIPs(r) ==
    IF ~r.ok THEN [ok |-> FALSE, a |-> ToN(0), b |-> ToN(0)]
    ELSE IF LessN(ipToU32(r.b), ipToU32(r.a)) THEN [ok |-> FALSE, a |-> ToN(0), b |-> ToN(0)]
    ELSE [ok |-> TRUE, a |-> ipToU32(r.a), b |-> ipToU32(r.b)]

\* A loop over the addresses of one part: [kind, cur, end].  kind "cidr" is the
\* loop of enumerateIPv4 (cur, end: addresses), kind "range" the loop
\* for ip := a; ip <= b; ip++ of ScanSpec (cur, end: uint32), "done" a loop
\* that has ended or has no iteration.
Done == [kind |-> "done", cur |-> NoIP, end |-> NoIP]

enumerateIPv4(c) ==
    LET network   == Mask(c.ip, c.bits)
        broadcast == Broadcast(network, c.bits)
        start     == inc4(network)
        end       == dec4(broadcast)
    IN  IF bytesLE(end, start) THEN Done
        ELSE [kind |-> "cidr", cur |-> start, end |-> end]

\* the loop the producer of ScanSpec runs for one part of the spec
LoopOf(p) ==
    IF p.kind = "blank" THEN Done
    ELSE IF p.kind = "cidr"
    THEN IF p.ok THEN enumerateIPv4(p) ELSE Done
    ELSE LET r == parseRangeIPs(p) IN
         IF r.ok THEN [kind |-> "range", cur |-> r.a, end |-> r.b] ELSE Done

\* the address of the current iteration
LoopIP(it) == IF it.kind = "range" THEN u32ToIP(it.cur) ELSE it.cur

\* to the next iteration: if equal4(cur, end) break, inc4(cur); or ip++, ip <= b
LoopNext(it) ==
    IF it.kind = "cidr"
    THEN IF equal4(it.cur, it.end) THEN Done ELSE [it EXCEPT !.cur = inc4(@)]
    ELSE IF LessN(it.end, IncU32(it.cur)) THEN Done ELSE [it EXCEPT !.cur = IncU32(@)]

(***************************************************************************)
(* netutil.PreviewSpec and the enumerations applied to one part.           *)
(***************************************************************************)
AddrBases ==
    {<<0, 0, 0, 0>>, <<10, 0, 0, 0>>, <<10, 0, 0, 77>>, <<10, 0, 1, 200>>,
     <<192, 168, 255, 128>>, <<255, 255, 255, 255>>}

AddrEnds ==
    {<<0, 0, 0, 0>>, <<10, 0, 0, 1>>, <<10, 0, 0, 5>>, <<10, 0, 0, 255>>,
     <<10, 0, 1, 0>>, <<255, 255, 255, 255>>}

AddrInputs ==
    {Cidr(ip, bits) : ip \in AddrBases, bits \in 23..32}
        \cup {Range(a, b) : a \in AddrEnds, b \in AddrEnds}
        \cup {BadCidr, BadRange}

AddrPreview ==
    /\ apc = "input"
    /\ aprev' = PreviewSpec(<<aspec>>)
    /\ apc' = "previewed"
    /\ UNCHANGED <<hostVars, scanVars, aspec, aout, ait>>

\* the enumeration of the part begins
AddrEnumerate ==
    /\ apc = "previewed"
    /\ ait' = LoopOf(aspec)
    /\ apc' = IF LoopOf(aspec) = Done THEN "enumerated" ELSE "loop"
    /\ UNCHANGED <<hostVars, scanVars, aspec, aprev, aout>>

\* one iteration: out = append(out, cur)
AddrStep ==
    /\ apc = "loop"
    /\ Len(aout) < MaxEnum
    /\ aout' = Append(aout, LoopIP(ait))
    /\ ait' = LoopNext(ait)
    /\ apc' = IF LoopNext(ait) = Done THEN "enumerated" ELSE "loop"
    /\ UNCHANGED <<hostVars, scanVars, aspec, aprev>>

(***************************************************************************)
(* Scanner.ScanSpec: the calling goroutine (preview, producer), the        *)
(* workers and the progress-ticker goroutine.                              *)
(***************************************************************************)
Concurrency == 2   \* s.cfg.Concurrency in the model (256 by default)
MaxReports  == 2   \* the count of onProgress calls saturates here
MaxDone     == 5   \* a scan is followed for this many probes

JobsCap == 2 * Concurrency

Workers == 1..Concurrency

ScanInputs ==
    {<< >>,
     <<BadRange>>,
     <<Cidr(<<10, 0, 0, 8>>, 31)>>,
     <<Cidr(<<10, 0, 0, 4>>, 30)>>,
     <<Range(<<10, 0, 0, 9>>, <<10, 0, 0, 9>>)>>,
     <<Range(<<10, 0, 0, 9>>, <<10, 0, 0, 13>>)>>,
     <<Range(<<10, 0, 0, 5>>, <<10, 0, 0, 1>>)>>,
     <<Range(<<10, 0, 1, 0>>, <<10, 0, 0, 255>>)>>,
     <<Range(<<255, 255, 255, 255>>, <<0, 0, 0, 0>>)>>,
     <<Range(<<10, 0, 0, 5>>, <<10, 0, 0, 1>>), Range(<<10, 0, 0, 9>>, <<10, 0, 0, 10>>)>>,
     <<Cidr(<<10, 0, 0, 4>>, 30), Blank, Range(<<10, 0, 0, 3>>, <<10, 0, 0, 2>>)>>,
     <<BadCidr>>,
     <<Cidr(<<10, 0, 0, 4>>, 30), BadRange>>,
     <<BadCidr, Range(<<10, 0, 0, 9>>, <<10, 0, 0, 10>>)>>,
     <<Range(<<10, 0, 0, 9>>, <<10, 0, 0, 10>>), Blank, BadCidr, Cidr(<<10, 0, 0, 4>>, 30)>>}

Count(n) == IF n < MaxReports THEN n + 1 ELSE n

\* report(): onProgress(done, total)
report(p) == [n |-> Count(p.n), done |-> sdone]

\* ScanSpec up to the start of the goroutines
ScanStart ==
    /\ spc = "call"
    /\ LET p == PreviewSpec(sspec) IN
        /\ prev' = p
        /\ IF ~p.Valid
           THEN /\ ret' = "bad spec"
                /\ spc' = "returned"
                /\ UNCHANGED <<wpc, tick>>
           ELSE IF p.TotalHosts = ToN(0)
           THEN /\ ret' = "nil"
                /\ spc' = "returned"
                /\ UNCHANGED <<wpc, tick>>
           ELSE /\ spc' = "part"
                /\ wpc' = [w \in Workers |-> "recv"]
                /\ tick' = [stopped |-> FALSE, pc |-> "idle"]
                /\ UNCHANGED ret
    /\ UNCHANGED <<hostVars, addrVars, sspec, part, iter, jobs, wip, sdone, scancel,
                   probed, results, prog>>

\* for _, part := range splitSpec(spec): the part's addresses, or continue
ProducerPart ==
    /\ spc = "part"
    /\ IF part > Len(sspec)
       THEN /\ spc' = "close"
            /\ UNCHANGED <<part, iter>>
       ELSE /\ iter' = LoopOf(sspec[part])
            /\ part' = part + 1
            /\ spc' = IF LoopOf(sspec[part]) = Done THEN "part" ELSE "send"
    /\ UNCHANGED <<hostVars, addrVars, sspec, prev, jobs, wpc, wip, sdone, tick, scancel,
                   ret, probed, results, prog>>

\* select: case jobs <- ip
ProducerSend ==
    /\ spc = "send"
    /\ Len(jobs.q) < JobsCap
    /\ jobs' = [jobs EXCEPT !.q = Append(@, LoopIP(iter))]
    /\ iter' = LoopNext(iter)
    /\ spc' = IF LoopNext(iter) = Done THEN "part" ELSE "send"
    /\ UNCHANGED <<hostVars, addrVars, sspec, prev, part, wpc, wip, sdone, tick, scancel,
                   ret, probed, results, prog>>

\* select: case <-ctx.Done(): close(jobs)
ProducerCancelled ==
    /\ spc = "send"
    /\ scancel
    /\ jobs' = [jobs EXCEPT !.closed = TRUE]
    /\ spc' = "cancelled"
    /\ UNCHANGED <<hostVars, addrVars, sspec, prev, part, iter, wpc, wip, sdone, tick,
                   scancel, ret, probed, results, prog>>

\* wg.Wait(); return ctx.Err(), with the deferred tick.Stop()
ProducerReturnCtx ==
    /\ spc = "cancelled"
    /\ \A w \in DOMAIN wpc : wpc[w] = "exited"
    /\ ret' = "ctx"
    /\ tick' = [tick EXCEPT !.stopped = TRUE]
    /\ spc' = "returned"
    /\ UNCHANGED <<hostVars, addrVars, sspec, prev, part, iter, jobs, wpc, wip, sdone,
                   scancel, probed, results, prog>>

\* after the last part: close(jobs)
ProducerClose ==
    /\ spc = "close"
    /\ jobs' = [jobs EXCEPT !.closed = TRUE]
    /\ spc' = "wait"
    /\ UNCHANGED <<hostVars, addrVars, sspec, prev, part, iter, wpc, wip, sdone, tick,
                   scancel, ret, probed, results, prog>>

\* wg.Wait(); report(); return nil, with the deferred tick.Stop()
ProducerReturnNil ==
    /\ spc = "wait"
    /\ \A w \in DOMAIN wpc : wpc[w] = "exited"
    /\ prog' = report(prog)
    /\ ret' = "nil"
    /\ tick' = [tick EXCEPT !.stopped = TRUE]
    /\ spc' = "returned"
    /\ UNCHANGED <<hostVars, addrVars, sspec, prev, part, iter, jobs, wpc, wip, sdone,
                   scancel, probed, results>>

\* worker: for ip := range jobs
WorkerReceive(w) ==
    /\ wpc[w] = "recv"
    /\ IF jobs.q # << >>
       THEN /\ wip' = [wip EXCEPT ![w] = Head(jobs.q)]
            /\ jobs' = [jobs EXCEPT !.q = Tail(@)]
            /\ wpc' = [wpc EXCEPT ![w] = "probe"]
       ELSE /\ jobs.closed
            /\ wpc' = [wpc EXCEPT ![w] = "exited"]
            /\ UNCHANGED <<wip, jobs>>
    /\ UNCHANGED <<hostVars, addrVars, sspec, spc, prev, part, iter, sdone, tick, scancel,
                   ret, probed, results, prog>>

\* worker: r := s.probeIP(ctx, ip); onResult(r) when something answered; done++
WorkerProbe(w) ==
    /\ wpc[w] = "probe"
    /\ sdone < MaxDone
    /\ \E answered \in (IF scancel THEN {FALSE} ELSE BOOLEAN) :
          results' = IF answered THEN results \cup {wip[w]} ELSE results
    /\ probed' = probed \cup {wip[w]}
    /\ sdone' = sdone + 1
    /\ wip' = [wip EXCEPT ![w] = NoIP]
    /\ wpc' = [wpc EXCEPT ![w] = "recv"]
    /\ UNCHANGED <<hostVars, addrVars, sspec, spc, prev, part, iter, jobs, tick, scancel,
                   ret, prog>>

\* ticker goroutine: for range tick.C (a tick is delivered while the ticker runs)
TickerFires ==
    /\ tick.pc = "idle"
    /\ ~tick.stopped
    /\ tick' = [tick EXCEPT !.pc = "report"]
    /\ UNCHANGED <<hostVars, addrVars, sspec, spc, prev, part, iter, jobs, wpc, wip, sdone,
                   scancel, ret, probed, results, prog>>

\* ticker goroutine: report()
TickerReport ==
    /\ tick.pc = "report"
    /\ prog' = report(prog)
    /\ tick' = [tick EXCEPT !.pc = "idle"]
    /\ UNCHANGED <<hostVars, addrVars, sspec, spc, prev, part, iter, jobs, wpc, wip, sdone,
                   scancel, ret, probed, results>>

\* the caller's context is cancelled while ScanSpec runs
ScanCancel ==
    /\ spc \notin {"call", "returned"}
    /\ ~scancel
    /\ scancel' = TRUE
    /\ UNCHANGED <<hostVars, addrVars, sspec, spc, prev, part, iter, jobs, wpc, wip, sdone,
                   tick, ret, probed, results, prog>>

InitScan(specs) ==
    /\ sspec \in specs
    /\ spc = "call"
    /\ prev = Preview(FALSE, "", ToN(0), NoText, NoText)
    /\ part = 1
    /\ iter = Done
    /\ jobs = [q |-> << >>, closed |-> FALSE]
    /\ wpc = [w \in Workers |-> "none"]
    /\ wip = [w \in Workers |-> NoIP]
    /\ sdone = 0
    /\ tick = [stopped |-> TRUE, pc |-> "none"]
    /\ scancel = FALSE
    /\ ret = "none"
    /\ probed = {}
    /\ results = {}
    /\ prog = [n |-> 0, done |-> 0]

InitAddr(inputs) ==
    /\ aspec \in inputs
    /\ apc = "input"
    /\ aprev = Preview(FALSE, "", ToN(0), NoText, NoText)
    /\ aout = << >>
    /\ ait = Done

InitCall(inputs) ==
    /\ arg \in inputs
    /\ out = << >>
    /\ fpc = "call"

NoCall == InitCall({<< >>})

NoNet == InitScan({<< >>}) /\ InitAddr({Blank}) /\ NoCall

InitSse(S) ==
    /\ hpc = [c \in S |-> "new"]
    /\ snap = [c \in S |-> [n |-> 0, devices |-> << >>]]
    /\ cancelled = [c \in S |-> FALSE]

InitApi(C) == held = [c \in C |-> NoHandle]

InitRegistry ==
    /\ byIP = << >>
    /\ subs = {}
    /\ chans = << >>

\* P: the runProbe executions that can be in flight (enrichment workers, handlers);
\* mains: the main packages considered
InitProbe(P, mains) ==
    /\ entry \in mains
    /\ now = 0
    /\ probeCh = <<>>
    /\ probeNext = [ip \in IPs |-> 0]
    /\ hist = [accepted |-> [ip \in IPs |-> [n |-> 0, t |-> 0, mi |-> 0]],
               offered |-> {}]
    /\ ppc = [w \in P |-> "idle"]
    /\ pip = [w \in P |-> ""]
    /\ pd = [w \in P |-> NoDev]
    /\ pok = [w \in P |-> ""]
    /\ pres = [w \in P |-> NoResult]

InitOneProber ==
    InitRegistry /\ InitProbe({"worker"}, {"part_000", "cmd_core"}) /\ InitSse({}) /\ InitApi({})
        /\ NoNet

NextProbe ==
    \/ Tick
    \/ OnResult
    \/ OnResultCore
    \/ BusDiscovered
    \/ BusObserved
    \/ \E w \in DOMAIN ppc : WorkerDequeue(w)
    \/ \E w \in DOMAIN ppc : ManualProbe(w)
    \/ \E w \in DOMAIN ppc : RunProbeGet(w)
    \/ \E w \in DOMAIN ppc : RunProbeOffline(w)
    \/ \E w \in DOMAIN ppc : RunProbeMarkTrying(w)
    \/ \E w \in DOMAIN ppc : RunProbeWhatsminer(w)
    \/ \E w \in DOMAIN ppc : RunProbeUnsupported(w)
    \/ \E w \in DOMAIN ppc : RunProbeStock(w)
    \/ \E w \in DOMAIN ppc : RunProbeVnish(w)
    \/ \E w \in DOMAIN ppc : RunProbeReturn(w)

SpecProbe == InitOneProber /\ [][NextProbe]_vars

\* The main package of src/unnamed/part_000 with two executions of runProbe that
\* can overlap: each is started by an enrichment worker taking a request from
\* probeCh or by the handler of POST /api/devices/{ip}/probe.
\* The registry is empty, or a NetworkObserved event of the bus has entered the
\* device as offline before the first scan result.
SeenOffline ==
    {Put(<< >>, ip, UpsertObservedDevice(<< >>, "scanner", ip, "", FALSE, 0)) : ip \in IPs}

InitTwoProbers ==
    /\ byIP \in {<< >>} \cup SeenOffline
    /\ subs = {}
    /\ chans = << >>
    /\ InitProbe({"worker", "handler"}, {"part_000"}) /\ InitSse({}) /\ InitApi({})
    /\ NoNet

NextProbes ==
    \/ OnResult
    \/ WorkerDequeue("worker")
    \/ ManualProbe("handler")
    \/ \E w \in DOMAIN ppc : RunProbeGet(w)
    \/ \E w \in DOMAIN ppc : RunProbeOffline(w)
    \/ \E w \in DOMAIN ppc : RunProbeMarkTrying(w)
    \/ \E w \in DOMAIN ppc : RunProbeWhatsminer(w)
    \/ \E w \in DOMAIN ppc : RunProbeUnsupported(w)
    \/ \E w \in DOMAIN ppc : RunProbeStock(w)
    \/ \E w \in DOMAIN ppc : RunProbeVnish(w)
    \/ \E w \in DOMAIN ppc : RunProbeReturn(w)

SpecProbes == InitTwoProbers /\ [][NextProbes]_vars

\* The enrichment scheduler of the main package of src/unnamed/part_000: the scan
\* callback and the periodic retry offer devices, one worker takes them.
InitSched ==
    InitRegistry /\ InitProbe({"worker"}, {"part_000"}) /\ InitSse({}) /\ InitApi({})
        /\ NoNet

NextSched ==
    \/ ClockAdvance
    \/ OnResult
    \/ BusObserved
    \/ Sweep
    \/ \E w \in DOMAIN ppc : WorkerDequeue(w)
    \/ \E w \in DOMAIN ppc : RunProbeGet(w)
    \/ \E w \in DOMAIN ppc : RunProbeOffline(w)
    \/ \E w \in DOMAIN ppc : RunProbeMarkTrying(w)
    \/ \E w \in DOMAIN ppc : RunProbeWhatsminer(w)
    \/ \E w \in DOMAIN ppc : RunProbeUnsupported(w)
    \/ \E w \in DOMAIN ppc : RunProbeStock(w)
    \/ \E w \in DOMAIN ppc : RunProbeVnish(w)
    \/ \E w \in DOMAIN ppc : RunProbeReturn(w)

SpecSched == InitSched /\ [][NextSched]_vars

\* The store with one subscriber and the writers of both main packages.
InitReg ==
    InitRegistry /\ InitProbe({}, {"part_000", "cmd_core"}) /\ InitSse({"sse1"}) /\ InitApi({})
        /\ NoNet

NextReg ==
    \/ OnResult
    \/ OnResultCore
    \/ BusDiscovered
    \/ BusObserved
    \/ \E c \in DOMAIN hpc : SseSubscribe(c)
    \/ \E c \in DOMAIN hpc : SseSend(c)
    \/ \E c \in DOMAIN hpc : SseWake(c)
    \/ \E c \in DOMAIN hpc : SseHeartbeat(c)
    \/ \E c \in DOMAIN hpc : SseCancel(c)
    \/ \E c \in DOMAIN hpc : SubscribeCleanup(c)
    \/ \E c \in DOMAIN hpc : SseReturn(c)

SpecReg == InitReg /\ [][NextReg]_vars

\* The store and two callers that keep what they are handed.
InitRegAPI ==
    InitRegistry /\ InitProbe({}, {"part_000"}) /\ InitSse({})
        /\ InitApi({"caller1", "caller2"}) /\ NoNet

NextRegAPI ==
    \/ \E c \in DOMAIN held : ApiUpsertDiscovery(c)
    \/ \E c \in DOMAIN held : ApiUpsertObserved(c)
    \/ \E c \in DOMAIN held : ApiList(c)
    \/ \E c \in DOMAIN held : CallerWritesPointer(c)
    \/ \E c \in DOMAIN held : CallerWritesCopy(c)
    \/ \E c \in DOMAIN held : CallerWritesPort(c)

SpecRegAPI == InitRegAPI /\ [][NextRegAPI]_vars

\* The store and the probes at rest.
NoHost == InitRegistry /\ InitProbe({}, {"part_000"}) /\ InitSse({}) /\ InitApi({})

\* netutil and the enumerations, one input at a time.
InitAddrs == NoHost /\ InitScan({<< >>}) /\ InitAddr(AddrInputs) /\ NoCall

NextAddr ==
    \/ AddrPreview
    \/ AddrEnumerate
    \/ AddrStep

SpecAddr == InitAddrs /\ [][NextAddr]_vars

\* One call of ScanSpec.
InitScans == NoHost /\ InitScan(ScanInputs) /\ InitAddr({Blank}) /\ NoCall

NextScan ==
    \/ ScanStart
    \/ ProducerPart
    \/ ProducerSend
    \/ ProducerCancelled
    \/ ProducerReturnCtx
    \/ ProducerClose
    \/ ProducerReturnNil
    \/ \E w \in Workers : WorkerReceive(w)
    \/ \E w \in Workers : WorkerProbe(w)
    \/ TickerFires
    \/ TickerReport
    \/ ScanCancel

SpecScan == InitScans /\ [][NextScan]_vars

\* The specs whose last range ends at the highest address, 255.255.255.255,
\* beside an ordinary one: the loop variable of the range loop is a uint32.
TopRangeInputs ==
    {<<Range(<<255, 255, 255, 254>>, <<255, 255, 255, 255>>)>>,
     <<Range(<<10, 0, 0, 9>>, <<10, 0, 0, 10>>)>>}

InitScanTop == NoHost /\ InitScan(TopRangeInputs) /\ InitAddr({Blank}) /\ NoCall

SpecScanTop == InitScanTop /\ [][NextScan]_vars

\* The goroutines of ScanSpec are scheduled: each keeps taking its steps.
SpecScanLive ==
    /\ SpecScan
    /\ WF_vars(ScanStart \/ ProducerPart \/ ProducerSend \/ ProducerCancelled
                  \/ ProducerReturnCtx \/ ProducerClose \/ ProducerReturnNil)
    /\ \A w \in Workers : WF_vars(WorkerReceive(w) \/ WorkerProbe(w))
    /\ WF_vars(TickerReport)

(***************************************************************************)
(* Claims about runProbe and the scan callback (SpecProbe).                *)
(***************************************************************************)
Returned(w) == ppc[w] = "done" /\ pip[w] \in DOMAIN byIP

\* C1 (as claimed): a failing probe of a device whose AuthStatus was ok for less
\* than ten minutes when the probe started leaves AuthStatus ok; when the ok was
\* ten minutes old or more the failing probe sets AuthStatus to fail.
C1_AntiFlapKeepsRecentOK ==
    \A w \in DOMAIN ppc :
        (Returned(w) /\ ~pres[w].OK /\ pres[w].path # "notfound") =>
            /\ pok[w] = "recent ok" => byIP[pip[w]].AuthStatus = "ok"
            /\ pok[w] = "old ok" => byIP[pip[w]].AuthStatus = "fail"

\* C2 (as claimed): on every prober path, a result that is OK but carries no
\* fact ends in AuthStatus fail with AuthError "ok but no parsable data".
C2_ZeroFactsIsFail ==
    \A w \in DOMAIN ppc :
        (Returned(w) /\ pres[w].OK /\ IsZeroFacts(pres[w].facts)) =>
            /\ byIP[pip[w]].AuthStatus = "fail"
            /\ byIP[pip[w]].AuthError = "ok but no parsable data"

Present(d) ==
    [Vendor |-> d.Vendor # "", Model |-> d.Model # "", Firmware |-> d.Firmware # "",
     Worker |-> d.Worker # "", UptimeS |-> d.UptimeS > 0,
     HashrateTHS |-> d.HashrateTHS > 0, FansRPM |-> Len(d.FansRPM) > 0,
     TempsC |-> Len(d.TempsC) > 0, MAC |-> d.MAC # ""]

\* C3 (as claimed): no step of a scan-result application or of an enrichment
\* replaces a non-empty Vendor, Model, Firmware, Worker, UptimeS, HashrateTHS,
\* FansRPM, TempsC or MAC of a device by an empty or zero value.
C3_MonotonicOnNonEmpty ==
    [][\A ip \in DOMAIN byIP :
          \A f \in DOMAIN Present(byIP[ip]) :
              Present(byIP[ip])[f] => Present(byIP'[ip])[f]]_vars

(***************************************************************************)
(* Claims about the store and its subscribers (SpecReg, SpecRegAPI).       *)
(***************************************************************************)
\* C4: whatever mutations run while a subscriber does not receive, its channel
\* holds at most one pending signal, and with the channel full every mutating
\* handler can still take its step (no mutation waits for the subscriber).
C4_AtMostOnePending ==
    \A c \in DOMAIN chans :
        /\ chans[c].len <= 1
        /\ chans[c].len = 1 =>
              /\ ENABLED BusDiscovered
              /\ ENABLED BusObserved
              /\ ENABLED OnResult \/ ENABLED OnResultCore

\* C4 witness: a registered subscriber waits with one signal pending while the
\* registry already holds the outcome of several mutations it has not fetched.
C4_Witness ==
    \E c \in subs :
        /\ hpc[c] = "wait"
        /\ chans[c].len = 1
        /\ snap[c].devices = << >>
        /\ \E ip \in DOMAIN byIP : byIP[ip].MAC # "" /\ byIP[ip].Vendor # ""

\* C5: a registered subscriber that is waiting with an empty channel has, as its
\* last snapshot, exactly the current registry state.
C5_NoLostWakeup ==
    \A c \in subs :
        (hpc[c] = "wait" /\ chans[c].len = 0) =>
            /\ snap[c].n >= 1
            /\ snap[c].devices = Marshal(List(byIP))

\* C5 witness: after at least one wake-up the subscriber waits, its channel is
\* empty and its snapshot shows a device that was mutated.
C5_Witness ==
    \E c \in subs :
        /\ hpc[c] = "wait"
        /\ chans[c].len = 0
        /\ snap[c].n >= 2
        /\ \E ip \in DOMAIN snap[c].devices : snap[c].devices[ip].MAC # ""

\* C6 (as claimed): whatever a caller writes to a Device the store returned, the
\* registry state stays as it was.
C6_CallerWritesLeaveRegistry ==
    [][(\E c \in DOMAIN held :
            CallerWritesPointer(c) \/ CallerWritesCopy(c) \/ CallerWritesPort(c))
        => byIP' = byIP]_vars

(***************************************************************************)
(* Claims about ScanSpec and the address enumerations (SpecScan,           *)
(* SpecScanLive, SpecAddr).                                                *)
(***************************************************************************)
\* C7 (as claimed): when the context is cancelled while ScanSpec runs, ScanSpec
\* returns the context's error, never nil.
C7_CancelReturnsCtxError ==
    (spc = "returned" /\ scancel) => ret = "ctx"

\* C8 (as claimed): once ScanSpec has returned, neither onProgress nor onResult
\* is invoked any more, and the goroutines it started (the workers, the ticker
\* goroutine) have terminated or eventually terminate.
C8_NothingRunsAfterReturn ==
    /\ [][spc = "returned" => (prog' = prog /\ results' = results)]_vars
    /\ (spc = "returned" /\ tick.pc # "none") ~>
            (tick.pc = "exited" /\ \A w \in Workers : wpc[w] = "exited")

\* the number of addresses strictly inside a block of prefix length p
Hosts(p) == IF p <= 30 THEN Pow2(32 - p) - 2 ELSE 0

Inside(x, lo, hi) ==
    LessN(ipToU32(lo), ipToU32(x)) /\ LessN(ipToU32(x), ipToU32(hi))

\* C9 (as claimed): for a CIDR block of prefix length p, the preview counts and
\* the enumeration yields, in ascending order, exactly the addresses strictly
\* between the network and the broadcast address: 2^(32-p)-2 for p <= 30 with
\* first = network+1 and last = broadcast-1, none for /31 and /32.
C9_CidrHosts ==
    (aspec.kind = "cidr" /\ aspec.ok) =>
        LET network   == Mask(aspec.ip, aspec.bits)
            broadcast == Broadcast(network, aspec.bits)
            n         == Hosts(aspec.bits)
        IN  /\ apc # "input" =>
                  /\ aprev.Valid
                  /\ aprev.TotalHosts = ToN(n)
                  /\ aprev.First = IF n > 0 THEN String(inc4(network)) ELSE NoText
                  /\ aprev.Last = IF n > 0 THEN String(dec4(broadcast)) ELSE NoText
            /\ \A i \in 1..Len(aout) : Inside(aout[i], network, broadcast)
            /\ \A i \in 1..(Len(aout) - 1) :
                  LessN(ipToU32(aout[i]), ipToU32(aout[i + 1]))
            /\ apc = "enumerated" => Len(aout) = n

Reversed(p) == p.kind = "range" /\ p.ok /\ LessN(ipToU32(p.b), ipToU32(p.a))

\* the spec without its reversed ranges
Forward(spec) == SelectSeq(spec, LAMBDA p : ~Reversed(p))

InSpan(ip, p) ==
    /\ ~LessN(ipToU32(ip), ipToU32(p.b))
    /\ ~LessN(ipToU32(p.a), ipToU32(ip))

Handled == probed \cup {jobs.q[i] : i \in 1..Len(jobs.q)}
               \cup {wip[w] : w \in {x \in Workers : wip[x] # NoIP}}

\* C10: an A-B range whose end precedes its start leaves the preview valid and
\* adds nothing to its total, first and last: the preview is that of the spec
\* without the range.  ScanSpec hands no address of the range to a worker and
\* does not return an error because of it.
C10_ReversedRange ==
    (spc # "call" /\ \E i \in 1..Len(sspec) : Reversed(sspec[i])) =>
        /\ prev = IF Forward(sspec) = << >>
                  THEN Preview(TRUE, "", ToN(0), NoText, NoText)
                  ELSE PreviewSpec(Forward(sspec))
        /\ \A i \in 1..Len(sspec) :
              Reversed(sspec[i]) => \A ip \in Handled : ~InSpan(ip, sspec[i])
        /\ spc = "returned" => (ret # "bad spec" /\ (~scancel => ret = "nil"))

\* C10 witness: a spec with a reversed range and a forward range has been
\* scanned to the end: two hosts counted, both probed, nil returned.
C10_Witness ==
    /\ spc = "returned"
    /\ ret = "nil"
    /\ \E i \in 1..Len(sspec) : Reversed(sspec[i])
    /\ prev.TotalHosts = ToN(2)
    /\ Cardinality(probed) = 2

\* a part that is neither a parseable CIDR block nor a parseable A-B pair
Unparseable(p) == p.kind # "blank" /\ ~p.ok

\* C11: when a non-empty part of the spec is neither a parseable CIDR block nor
\* a parseable A-B pair, the preview of the whole spec is invalid and ScanSpec
\* returns an error: no worker and no ticker goroutine is started, no address
\* is queued or probed and neither onProgress nor onResult is invoked, also
\* when other parts of the spec are valid.
C11_BadPartRefusesSpec ==
    (spc # "call" /\ \E i \in 1..Len(sspec) : Unparseable(sspec[i])) =>
        /\ ~prev.Valid
        /\ prev.TotalHosts = ToN(0)
        /\ spc = "returned"
        /\ ret = "bad spec"
        /\ \A w \in Workers : wpc[w] = "none"
        /\ tick.pc = "none"
        /\ jobs.q = << >>
        /\ probed = {}
        /\ results = {}
        /\ prog.n = 0

\* C11 witness: ScanSpec has refused a spec in which a valid range and a valid
\* block with hosts stand next to an unparseable block.
C11_Witness ==
    /\ spc = "returned"
    /\ ret = "bad spec"
    /\ \E i \in 1..Len(sspec) : Unparseable(sspec[i])
    /\ \E i \in 1..Len(sspec) :
          sspec[i].kind = "range" /\ sspec[i].ok /\ ~Reversed(sspec[i])
    /\ \E i \in 1..Len(sspec) :
          sspec[i].kind = "cidr" /\ sspec[i].ok /\ sspec[i].bits <= 30

(***************************************************************************)
(* Scanner.probeIP on one host: the ports that answered and what the       *)
(* fingerprints found decide the Result it returns.                        *)
(***************************************************************************)
\* s.cfg.Ports, in the order probeIP dials them
Ports == <<80, 443, 4028, 22>>

\* the vendors the fingerprints assign
FingerprintVendors ==
    {"", "asic", "antminer", "whatsminer", "iceriver", "avalonminer", "elphapex"}

\* the Result before the decision: every subset of the ports open, in dial order
Fingerprinted ==
    { [BlankResult("10.0.0.7", SelectSeq(Ports, LAMBDA p : p \in open)) EXCEPT
           !.Vendor = v, !.Model = m, !.Worker = w, !.HashrateTHS = h] :
        open \in SUBSET {80, 443, 4028, 22}, v \in FingerprintVendors,
        m \in {"", "S19", "M30"}, w \in {"", "w1"}, h \in {0, 95} }

\* probeIP from "Decide if this is an ASIC candidate" to its return
ProbeIPDecide ==
    /\ fpc = "call"
    /\ out' = Scored(NormalizeResult(arg))
    /\ fpc' = "returned"
    /\ UNCHANGED <<regVars, probeVars, sseVars, apiVars, scanVars, addrVars, arg>>

InitScore == NoHost /\ InitScan({<< >>}) /\ InitAddr({Blank}) /\ InitCall(Fingerprinted)

NextScore == ProbeIPDecide

SpecScore == InitScore /\ [][NextScore]_vars

\* the sum the claim describes, from the sets of open ports
Points(r) ==
    LET open == {r.Open[i] : i \in 1..Len(r.Open)}
        web  == open \cap {80, 443} # {}
    IN  (CASE r.Vendor = ""     -> 0
           [] r.Vendor = "asic" -> 15
           [] OTHER             -> 40)
        + (IF r.Vendor = "antminer" /\ web THEN 15 ELSE 0)
        + (IF 4028 \in open THEN 35 ELSE 0)
        + (IF web THEN 10 ELSE 0)
        + (IF r.Worker # "" THEN 10 ELSE 0)
        + (IF r.HashrateTHS > 0 THEN 5 ELSE 0)

\* C12: the Confidence of the Result probeIP returns is min(100, S), S being 40
\* for an identified vendor (15 for the tag "asic"), plus 15 for antminer with
\* port 80 or 443 open, 35 for port 4028, 10 for port 80 or 443, 10 for a known
\* worker and 5 for a hashrate above zero; it lies within 0..100 and IsASIC is
\* true exactly when Confidence is 60 or more.
C12_ConfidenceAndIsASIC ==
    fpc = "returned" =>
        /\ out.Confidence = (IF Points(out) > 100 THEN 100 ELSE Points(out))
        /\ out.Confidence \in 0..100
        /\ out.IsASIC <=> out.Confidence >= 60

\* C12 witness: antminer with ports 80 and 4028 open, a worker and a hashrate:
\* 40+15+35+10+10+5 = 115 is clipped to 100 and the host is an ASIC.
C12_Witness ==
    /\ fpc = "returned"
    /\ out.Vendor = "antminer"
    /\ out.Open = <<80, 4028>>
    /\ out.Worker # ""
    /\ out.HashrateTHS > 0
    /\ Points(out) = 115
    /\ out.Confidence = 100
    /\ out.IsASIC

(***************************************************************************)
(* The three vendor probers: ProbeAntminerSchemes (stock CGI), whatsminer   *)
(* Probe and vnish Probe.  Each tries the (credential, scheme) combinations *)
(* in its own order, scores the result of each and keeps the best one.  The *)
(* miner decides what a combination finds: net maps a combination to it.    *)
(***************************************************************************)
Probers == {"stock", "whatsminer", "vnish"}

\* the schemes argument as the probers read it: "http" when none is given,
\* anything but http and https passed over
ValidSchemes(schemes) ==
    SelectSeq(IF Len(schemes) = 0 THEN <<"http">> ELSE schemes,
              LAMBDA x : ToLower(TrimSpace(x)) \in {"http", "https"})

\* the combinations in the order of the nested loops: credentials outside and
\* schemes inside in ProbeAntminerSchemes, schemes outside in the other two
Combos(prober, creds, schemes) ==
    LET vs == ValidSchemes(schemes)
        nc == Len(creds)
        ns == Len(vs)
    IN  [k \in 1..(nc * ns) |->
            IF prober = "stock"
            THEN [cred |-> creds[((k - 1) \div ns) + 1], scheme |-> vs[((k - 1) % ns) + 1]]
            ELSE [cred |-> creds[((k - 1) % nc) + 1], scheme |-> vs[((k - 1) \div nc) + 1]]]

\* what one combination finds
Findings == {"refused", "nothing", "bare", "partial", "rich"}

\* the Error of a failed combination
AttemptError(prober, finding) ==
    CASE prober = "vnish"      -> "unauthorized or no json endpoints"
      [] prober = "whatsminer" -> IF finding = "refused" THEN "unauthorized" ELSE ""
      [] OTHER -> IF finding = "refused" THEN "unauthorized"
                  ELSE "html response (no json api)"

\* the ProbeResult of one combination: Responses is the number of endpoints
\* stored in the map, facts what ExtractFacts reads from them
Attempt(prober, combo, finding) ==
    IF finding \in {"refused", "nothing"}
    THEN [OK |-> FALSE, Scheme |-> combo.scheme, UsedCred |-> combo.cred,
          Error |-> AttemptError(prober, finding), Responses |-> 0, facts |-> NoFacts]
    ELSE [OK |-> TRUE, Scheme |-> combo.scheme, UsedCred |-> combo.cred, Error |-> "",
          Responses |-> IF finding = "bare" THEN 1 ELSE 3,
          facts |-> CASE finding = "bare" -> NoFacts
                      [] finding = "partial" ->
                            [NoFacts EXCEPT !.HashrateTHS = 95, !.UptimeS = 100]
                      [] OTHER ->
                            [NoFacts EXCEPT !.HashrateTHS = 95, !.UptimeS = 100,
                                            !.FansRPM = <<6000>>]]

\* the score closure of each prober
proberScore(prober, r) ==
    IF ~r.OK THEN -1
    ELSE LET f == r.facts IN
         r.Responses * 10
         + (IF prober = "stock" /\ f.MAC # "" THEN 25 ELSE 0)
         + (IF f.Model # "" THEN (IF prober = "stock" THEN 10 ELSE 15) ELSE 0)
         + (IF prober # "whatsminer" /\ f.Firmware # "" THEN 10 ELSE 0)
         + (IF prober # "whatsminer" /\ f.Worker # ""
            THEN (IF prober = "stock" THEN 15 ELSE 10) ELSE 0)
         + (IF f.HashrateTHS > 0 THEN 20 ELSE 0)
         + (IF f.UptimeS > 0 THEN 10 ELSE 0)
         + (IF Len(f.FansRPM) > 0 THEN 10 ELSE 0)
         + (IF Len(f.TempsC) > 0 THEN 10 ELSE 0)

\* best before the first combination
NoBest(prober) ==
    [OK |-> FALSE, Scheme |-> "", UsedCred |-> "",
     Error |-> CASE prober = "stock" -> "no endpoints succeeded (auth/blocked/offline)"
                 [] prober = "whatsminer" -> "no whatsminer json endpoints succeeded"
                 [] OTHER -> "no vnish/anthill json endpoints succeeded",
     Responses |-> 0, facts |-> NoFacts]

GoodEnough == 70

\* variant: a result as good as the best one replaces it
BetterOrEqual(sc, bestScore) == sc >= bestScore

\* if sc := score(rx); sc > bestScore
Better(sc, bestScore) == sc > bestScore

\* "stop early on strong results": ProbeAntminerSchemes and the vnish Probe
\* test bestScore after each combination, the whatsminer Probe has no such test
StopsEarly(prober, bestScore) == prober # "whatsminer" /\ bestScore >= GoodEnough

ProberCalls ==
    { [prober |-> pr, creds |-> cs, schemes |-> ss, net |-> n] :
        pr \in Probers,
        cs \in {<<"stock:root/root">>, <<"stock:root/root", "farm">>},
        ss \in {<< >>, <<"http", "https">>, <<"ftp", "https">>},
        n \in [{"stock:root/root", "farm"} \X {"http", "https"} -> Findings] }

\* best, bestScore and lastFail are set up
ProberBegin ==
    /\ fpc = "call"
    /\ out' = [best |-> NoBest(arg.prober), bestScore |-> -1, lastFail |-> "",
               tried |-> << >>]
    /\ fpc' = "loop"
    /\ UNCHANGED <<regVars, probeVars, sseVars, apiVars, scanVars, addrVars, arg>>

\* one combination: the attempt, the comparison with best, the early return
ProberAttempt ==
    /\ fpc = "loop"
    /\ LET combos == Combos(arg.prober, arg.creds, arg.schemes)
           k      == Len(out.tried) + 1
       IN  /\ k <= Len(combos)
           /\ LET rx  == Attempt(arg.prober, combos[k],
                                  arg.net[<<combos[k].cred, combos[k].scheme>>])
                  sc  == proberScore(arg.prober, rx)
                  new == Better(sc, out.bestScore)
                  bs  == IF new THEN sc ELSE out.bestScore
              IN  /\ out' = [best      |-> IF new THEN rx ELSE out.best,
                             bestScore |-> bs,
                             lastFail  |-> IF ~new /\ arg.prober = "stock"
                                              /\ ~rx.OK /\ rx.Error # ""
                                           THEN rx.Error ELSE out.lastFail,
                             tried     |-> Append(out.tried, rx)]
                  /\ fpc' = IF StopsEarly(arg.prober, bs) THEN "returned" ELSE "loop"
    /\ UNCHANGED <<regVars, probeVars, sseVars, apiVars, scanVars, addrVars, arg>>

\* after the last combination: return best (ProbeAntminerSchemes puts the last
\* failure's Error into a failed best)
ProberReturn ==
    /\ fpc = "loop"
    /\ Len(out.tried) = Len(Combos(arg.prober, arg.creds, arg.schemes))
    /\ out' = [out EXCEPT !.best.Error =
                   IF arg.prober = "stock" /\ ~out.best.OK /\ out.lastFail # ""
                   THEN out.lastFail ELSE @]
    /\ fpc' = "returned"
    /\ UNCHANGED <<regVars, probeVars, sseVars, apiVars, scanVars, addrVars, arg>>

InitProber == NoHost /\ InitScan({<< >>}) /\ InitAddr({Blank}) /\ InitCall(ProberCalls)

NextProber ==
    \/ ProberBegin
    \/ ProberAttempt
    \/ ProberReturn

SpecProber == InitProber /\ [][NextProber]_vars

TriedScore(i) == proberScore(arg.prober, out.tried[i])

\* C13: the result a prober returns scores at least as much as every
\* combination it attempted; a returned success is the earliest attempted
\* combination with that score; OK=false is returned only when every attempted
\* combination failed, and then with a non-empty Error.
C13_BestCombinationReturned ==
    fpc = "returned" =>
        LET best == out.best
            n    == Len(out.tried)
        IN  /\ \A i \in 1..n : proberScore(arg.prober, best) >= TriedScore(i)
            /\ best.OK =>
                  \E i \in 1..n :
                      /\ out.tried[i] = best
                      /\ \A j \in 1..(i - 1) : TriedScore(j) < TriedScore(i)
            /\ ~best.OK =>
                  /\ \A i \in 1..n : ~out.tried[i].OK
                  /\ best.Error # ""

\* C13 witness: a prober has returned after four combinations of which the
\* second and a later one share the best score; the second one is returned.
C13_Witness ==
    /\ fpc = "returned"
    /\ Len(out.tried) = 4
    /\ out.best = out.tried[2]
    /\ TriedScore(1) < TriedScore(2)
    /\ \E j \in 3..4 : TriedScore(j) = TriedScore(2)

\* C14 (as claimed): in each of the three probers a combination that scores
\* 70 or more is the last one attempted, and it is the result returned.
C14_StopsAtGoodEnough ==
    fpc # "call" =>
        /\ \A i \in 1..(Len(out.tried) - 1) : TriedScore(i) < GoodEnough
        /\ (fpc = "returned" /\ Len(out.tried) > 0
                /\ TriedScore(Len(out.tried)) >= GoodEnough)
             => out.best = out.tried[Len(out.tried)]

(***************************************************************************)
(* tryScheme of ProbeAntminerSchemes: one credential and one scheme on the  *)
(* three CGI endpoints.  The miner decides what each request gets.          *)
(***************************************************************************)
endpoints ==
    <<"/cgi-bin/get_system_info.cgi", "/cgi-bin/summary.cgi", "/cgi-bin/stats.cgi">>

\* response bodies: JSON, an HTML page, an HTML tag in capitals followed by
\* JSON, a line of text, white space
Bodies ==
    {"{\"STATS\":[]}", "<!DOCTYPE html><html></html>", "<HTML>{\"a\":1}",
     "Socket connect failed", " "}

\* sanitize: the body from its first "{" or "[" on
sanitize(b) == IF b = "<HTML>{\"a\":1}" THEN "{\"a\":1}" ELSE b

\* json.Unmarshal(b, &m) == nil
Unmarshals(b) == b \in {"{\"STATS\":[]}", "{\"a\":1}"}

\* variant: the prefixes are looked for in the body as it came
IsHTMLAsSent(body) ==
    HasPrefix(body, "<!doctype html") \/ HasPrefix(body, "<html")

\* strings.HasPrefix(low, "<!doctype html") || strings.HasPrefix(low, "<html")
IsHTML(body) ==
    LET low == ToLower(body) IN
    HasPrefix(low, "<!doctype html") \/ HasPrefix(low, "<html")

\* what client.Do returns for one request: an error, or a status and a body
Reply(err, status, body) == [err |-> err, status |-> status, body |-> body]

Replies ==
    {Reply(TRUE, 0, "")} \cup {Reply(FALSE, 200, b) : b \in Bodies}
        \cup {Reply(FALSE, 401, "{\"STATS\":[]}")}

\* one endpoint: the reply to the Basic request and, for a 401 with a Digest
\* challenge, the reply to the Digest request
Exchanges ==
    { [first |-> r, challenge |-> FALSE, second |-> Reply(TRUE, 0, "")] :
          r \in Replies \cup {Reply(FALSE, 403, ""), Reply(FALSE, 500, "{\"STATS\":[]}")} }
    \cup
    { [first |-> Reply(FALSE, 401, ""), challenge |-> TRUE, second |-> r] : r \in Replies }

TrySchemeCalls ==
    { [cred |-> c, net |-> n] :
        c \in {[Name |-> "no-auth", Username |-> ""],
               [Name |-> "stock:root/root", Username |-> "root"]},
        n \in [1..Len(endpoints) -> Exchanges] }

\* out, okAny and lastErr before the first endpoint
TryBlank ==
    [OK |-> FALSE, Error |-> "", Responses |-> << >>, Raw |-> << >>,
     okAny |-> FALSE, lastErr |-> "", n |-> 0, sent |-> << >>]

\* variant: the Digest retry is made for a credential without a username too
DigestRetriedAnyUser(x, username) ==
    ~x.first.err /\ x.first.status = 401 /\ x.challenge

\* req2 is sent: a 401 whose WWW-Authenticate parses, and a username
DigestRetried(x, username) ==
    ~x.first.err /\ x.first.status = 401 /\ x.challenge /\ username # ""

\* the requests client.Do is called with for one endpoint
Requests(x, username) ==
    IF DigestRetried(x, username) THEN <<"req", "req2">> ELSE <<"req">>

\* the Digest retry counts: 2xx, a body, not HTML, JSON
DigestSucceeds(x, username) ==
    /\ DigestRetried(x, username)
    /\ ~x.second.err
    /\ x.second.status >= 200 /\ x.second.status <= 299
    /\ TrimSpace(x.second.body) # ""
    /\ ~IsHTML(TrimSpace(x.second.body))
    /\ Unmarshals(sanitize(x.second.body))

\* the body of the loop over the endpoints, for endpoint p
TryEndpoint(o, p, x, username) ==
    LET body == TrimSpace(x.first.body)
        o1   == [o EXCEPT !.n = @ + 1, !.sent = Append(@, Requests(x, username))]
    IN  IF x.first.err THEN [o1 EXCEPT !.lastErr = "connection refused"]
        ELSE IF x.first.status = 401
        THEN IF DigestSucceeds(x, username)
             THEN [o1 EXCEPT !.okAny = TRUE,
                             !.Responses = Put(@, p, [json |-> TRUE, from |-> x.second.body]),
                             !.Raw = Put(@, p, TrimSpace(x.second.body))]
             ELSE [o1 EXCEPT !.lastErr = "unauthorized"]
        ELSE IF x.first.status = 403 THEN [o1 EXCEPT !.lastErr = "forbidden"]
        ELSE IF x.first.status < 200 \/ x.first.status > 299
        THEN [o1 EXCEPT !.lastErr = "http status"]
        ELSE IF body = "" THEN [o1 EXCEPT !.lastErr = "empty body"]
        ELSE IF IsHTML(body)
        THEN [o1 EXCEPT !.lastErr = "html response (no json api)",
                        !.Raw = Put(@, p, body)]
        ELSE IF Unmarshals(sanitize(x.first.body))
        THEN [o1 EXCEPT !.okAny = TRUE,
                        !.Responses = Put(@, p, [json |-> TRUE, from |-> x.first.body]),
                        !.Raw = Put(@, p, body)]
        ELSE [o1 EXCEPT !.lastErr = "non-json response",
                        !.Responses = Put(@, p, [json |-> FALSE, from |-> body]),
                        !.Raw = Put(@, p, body)]

\* for _, p := range endpoints: one endpoint
TrySchemeEndpoint ==
    /\ fpc \in {"call", "loop"}
    /\ LET o == IF fpc = "call" THEN TryBlank ELSE out IN
        /\ o.n < Len(endpoints)
        /\ out' = TryEndpoint(o, endpoints[o.n + 1], arg.net[o.n + 1], arg.cred.Username)
    /\ fpc' = "loop"
    /\ UNCHANGED <<regVars, probeVars, sseVars, apiVars, scanVars, addrVars, arg>>

\* out.OK = okAny; the last error when nothing succeeded; return out
TrySchemeReturn ==
    /\ fpc = "loop"
    /\ out.n = Len(endpoints)
    /\ out' = [out EXCEPT !.OK = out.okAny,
                          !.Error = IF ~out.okAny /\ out.lastErr # "" THEN out.lastErr ELSE @]
    /\ fpc' = "returned"
    /\ UNCHANGED <<regVars, probeVars, sseVars, apiVars, scanVars, addrVars, arg>>

InitTryScheme ==
    NoHost /\ InitScan({<< >>}) /\ InitAddr({Blank}) /\ InitCall(TrySchemeCalls)

NextTryScheme ==
    \/ TrySchemeEndpoint
    \/ TrySchemeReturn

SpecTryScheme == InitTryScheme /\ [][NextTryScheme]_vars

\* the body starts with an HTML doctype or an html tag, in any letter case
StartsWithHTML(body) ==
    body \in {"<!DOCTYPE html><html></html>", "<HTML>{\"a\":1}"}

\* the endpoint answered with an HTML page: to the Basic request with a 2xx, or
\* to the Digest request that followed a 401
AnsweredHTML(x) ==
    \/ ~x.first.err /\ x.first.status = 200 /\ StartsWithHTML(x.first.body)
    \/ /\ ~x.first.err /\ x.first.status = 401 /\ x.challenge
       /\ ~x.second.err /\ StartsWithHTML(x.second.body)

\* C15: in the stock CGI prober an endpoint that answers with an HTML page does
\* not count as a success, neither on the Basic path nor on the Digest retry:
\* its body is not stored in Responses, a success rests on an endpoint that did
\* not answer with HTML, and a combination in which every endpoint answers
\* with HTML has OK=false.
C15_HTMLIsNoSuccess ==
    fpc # "call" =>
        /\ \A p \in DOMAIN out.Responses : ~StartsWithHTML(out.Responses[p].from)
        /\ \A i \in 1..out.n :
              AnsweredHTML(arg.net[i]) => endpoints[i] \notin DOMAIN out.Responses
        /\ out.okAny => \E i \in 1..out.n : ~AnsweredHTML(arg.net[i])
        /\ fpc = "returned" =>
              /\ out.OK => \E i \in 1..Len(endpoints) : ~AnsweredHTML(arg.net[i])
              /\ (\A i \in 1..Len(endpoints) : AnsweredHTML(arg.net[i])) =>
                    (~out.OK /\ out.Error # "")

\* C15 witness: a combination has returned OK=false after an HTML page with
\* HTTP 200 on the Basic path, an HTML page on the Digest retry and a page
\* whose tag is in capitals and which carries JSON behind the tag.
C15_Witness ==
    /\ fpc = "returned"
    /\ ~out.OK
    /\ \A i \in 1..Len(endpoints) : AnsweredHTML(arg.net[i])
    /\ \E i \in 1..Len(endpoints) : arg.net[i].challenge /\ arg.cred.Username # ""
    /\ \E i \in 1..Len(endpoints) : arg.net[i].first.body = "<HTML>{\"a\":1}"
    /\ \E i \in 1..Len(endpoints) : arg.net[i].first.body = "<!DOCTYPE html><html></html>"

(***************************************************************************)
(* Claims about the enrichment scheduler (SpecSched).                      *)
(***************************************************************************)
\* the requests for ip waiting in the queue
Queued(ch, ip) == Cardinality({i \in 1..Len(ch) : ch[i] = ip})

\* C16: a request that enters the probe queue comes no sooner after the request
\* accepted before it for the same IP than the minimum interval given with that
\* earlier request; and before the next-allowed time of an IP no request for it
\* enters the queue and its next-allowed time stays as it is.
C16_BackoffSpacing ==
    [][\A ip \in IPs :
          /\ Queued(probeCh', ip) > Queued(probeCh, ip) =>
                /\ now >= probeNext[ip]
                /\ hist.accepted[ip].n > 0 =>
                      now - hist.accepted[ip].t >= hist.accepted[ip].mi
          /\ now < probeNext[ip] =>
                /\ Queued(probeCh', ip) <= Queued(probeCh, ip)
                /\ probeNext'[ip] = probeNext[ip]]_vars

\* C16 witness: a second request for the IP has been accepted, sixty seconds
\* after the start, and waits in the queue with the backoff running.
C16_Witness ==
    \E ip \in IPs :
        /\ hist.accepted[ip].n = 2
        /\ hist.accepted[ip].t = 60
        /\ Queued(probeCh, ip) = 1
        /\ probeNext[ip] > now

\* the vendors for which runProbe has a prober
Probeable(d) == ProbeVendor(d) \in {"antminer", "asic", "", "unknown", "whatsminer"}

Incomplete(d) == d.MAC = "" \/ d.Worker = "" \/ d.Firmware = "" \/ Len(d.FansRPM) = 0

\* C19 (as claimed): on every sweep tick the devices offered to enqueueProbe are
\* exactly the online devices of a vendor runProbe can probe (antminer, asic,
\* blank, unknown, whatsminer) that lack MAC, worker, firmware or fan data.
C19_SweepOffersIncomplete ==
    [][Sweep =>
          hist'.offered = { ip \in DOMAIN byIP :
                              /\ byIP[ip].Online
                              /\ Probeable(byIP[ip])
                              /\ Incomplete(byIP[ip]) }]_vars

(***************************************************************************)
(* buildCreds: the credential candidates of a device, from the settings.   *)
(***************************************************************************)
\* settings.Credential as buildCreds reads it
Credential(name, enabled, vendor, firmware, priority, usernameEnc) ==
    [Name |-> name, Enabled |-> enabled, Vendor |-> vendor, Firmware |-> firmware,
     Priority |-> priority, UsernameEnc |-> usernameEnc, PasswordEnc |-> "enc(secret)"]

\* sec.DecryptString as buildCreds uses it: the plain text, or an error
DecryptString(enc) ==
    CASE enc = "enc(admin)"  -> [s |-> "admin", err |-> FALSE]
      [] enc = "enc(secret)" -> [s |-> "secret", err |-> FALSE]
      [] OTHER               -> [s |-> "", err |-> TRUE]

Cred(name, username, password) ==
    [Name |-> name, Username |-> username, Password |-> password]

\* defaultcreds.Defaults(): the file holds the table twice, once empty
DefaultTables ==
    { << >>,
      << [Vendor |-> "generic", Username |-> "root", Password |-> "root"],
         [Vendor |-> "generic", Username |-> "root", Password |-> "admin"],
         [Vendor |-> "generic", Username |-> "admin", Password |-> "admin"],
         [Vendor |-> "antminer", Username |-> "root", Password |-> "root"],
         [Vendor |-> "whatsminer", Username |-> "root", Password |-> "root"] >> }

\* "default:" + dc.Vendor
DefaultName(vendor) ==
    CASE vendor = "generic"  -> "default:generic"
      [] vendor = "antminer" -> "default:antminer"
      [] OTHER               -> "default:whatsminer"

\* devClass: "vnish" when the firmware names vnish, anthill or brains
DevClass(d) ==
    LET devFW == ToLower(TrimSpace(d.Firmware)) IN
    IF Contains(devFW, "vnish") \/ Contains(devFW, "anthill") \/ Contains(devFW, "brains")
    THEN "vnish" ELSE "stock"

\* cands: the enabled credentials of the device's vendor that decrypt, in
\* stored order
Cands(d, credentials) ==
    LET dv   == ToLower(TrimSpace(d.Vendor))
        kept == SelectSeq(credentials,
                    LAMBDA c :
                        /\ c.Enabled
                        /\ ~(dv # "" /\ dv # "unknown" /\ dv # "asic"
                              /\ ToLower(TrimSpace(c.Vendor)) # ""
                              /\ ToLower(TrimSpace(c.Vendor)) # dv)
                        /\ ~DecryptString(c.UsernameEnc).err
                        /\ ~DecryptString(c.PasswordEnc).err)
    IN  [i \in 1..Len(kept) |->
            [pri  |-> kept[i].Priority,
             fw   |-> ToLower(TrimSpace(kept[i].Firmware)),
             cred |-> Cred(kept[i].Name, DecryptString(kept[i].UsernameEnc).s,
                           DecryptString(kept[i].PasswordEnc).s)]]

\* si, sj: 1000 for a firmware class that is the device's, plus the priority
SortKey(x, devClass) ==
    (IF x.fw # "" /\ x.fw = devClass THEN 1000 ELSE 0) + x.pri

\* the two nested loops of the sort, from (i, j) on
RECURSIVE SortCands(_, _, _, _)
SortCands(c, i, j, devClass) ==
    IF i > Len(c) THEN c
    ELSE IF j > Len(c) THEN SortCands(c, i + 1, i + 2, devClass)
    ELSE SortCands(IF SortKey(c[j], devClass) > SortKey(c[i], devClass)
                   THEN [c EXCEPT ![i] = c[j], ![j] = c[i]] ELSE c,
                   i, j + 1, devClass)

\* the two factory pairs of a stock-class device
StockPairs(d) ==
    LET dv == ToLower(TrimSpace(d.Vendor)) IN
    IF DevClass(d) = "stock" /\ dv \in {"", "antminer", "asic", "unknown"}
    THEN <<Cred("stock:root/root", "root", "root"), Cred("stock:root/admin", "root", "admin")>>
    ELSE << >>

\* the built-in defaults of the device's vendor, when the toggle is set
DefaultCreds(d, tryDefaultCreds, table) ==
    LET dv   == ToLower(TrimSpace(d.Vendor))
        mine == SelectSeq(table, LAMBDA dc : ~(dc.Vendor # "generic" /\ dc.Vendor # dv))
    IN  IF tryDefaultCreds
        THEN [i \in 1..Len(mine) |->
                 Cred(DefaultName(mine[i].Vendor), mine[i].Username, mine[i].Password)]
        ELSE << >>

\* variant: the list is returned as it is
LeaveEmpty(list) == list

\* if len(out) == 0 { out = append(out, httpapi.Cred{Name: "no-auth"}) }
EnsureCandidate(list) ==
    IF Len(list) = 0 THEN <<Cred("no-auth", "", "")>> ELSE list

BuildCredsCalls ==
    { [d |-> [Vendor |-> v, Firmware |-> f], credentials |-> SubSeq(cs, 1, n),
       TryDefaultCreds |-> t, defaults |-> tab] :
        v \in {"", "antminer", "whatsminer"}, f \in {"", "AnthillOS"},
        n \in 0..3, t \in BOOLEAN, tab \in DefaultTables,
        cs \in { << Credential("farm", e, "", f1, p1, "enc(admin)"),
                    Credential("pool", TRUE, v2, f2, p2, "enc(admin)"),
                    Credential("spare", TRUE, "", f3, 10, u3) >> :
                  e \in BOOLEAN, f1 \in {"", "stock", "vnish"}, p1 \in {0, 1500},
                  v2 \in {"", "whatsminer"}, f2 \in {"stock", "vnish"}, p2 \in {-5, 1000},
                  f3 \in {"", "vnish"}, u3 \in {"enc(admin)", "garbled"} } }

\* buildCreds up to the end of the sort: cands
BuildCredsSort ==
    /\ fpc = "call"
    /\ out' = SortCands(Cands(arg.d, arg.credentials), 1, 2, DevClass(arg.d))
    /\ fpc' = "sorted"
    /\ UNCHANGED <<regVars, probeVars, sseVars, apiVars, scanVars, addrVars, arg>>

\* buildCreds from the sort to its return: out
BuildCredsReturn ==
    /\ fpc = "sorted"
    /\ out' = EnsureCandidate(
                  StockPairs(arg.d)
                  \o [i \in 1..Len(out) |-> out[i].cred]
                  \o DefaultCreds(arg.d, arg.TryDefaultCreds, arg.defaults))
    /\ fpc' = "returned"
    /\ UNCHANGED <<regVars, probeVars, sseVars, apiVars, scanVars, addrVars, arg>>

InitBuildCreds ==
    NoHost /\ InitScan({<< >>}) /\ InitAddr({Blank}) /\ InitCall(BuildCredsCalls)

NextBuildCreds ==
    \/ BuildCredsSort
    \/ BuildCredsReturn

SpecBuildCreds == InitBuildCreds /\ [][NextBuildCreds]_vars

NoAuth(c) == c.Username = "" /\ c.Password = ""

\* C17 (as claimed): the list buildCreds returns contains a no-auth candidate,
\* one with an empty username and an empty password.
C17_AlwaysNoAuth ==
    fpc = "returned" => \E i \in 1..Len(out) : NoAuth(out[i])

\* the settings and the device give buildCreds nothing to try
NothingToTry ==
    /\ \A i \in 1..Len(arg.credentials) :
          \/ ~arg.credentials[i].Enabled
          \/ arg.credentials[i].UsernameEnc = "garbled"
          \/ arg.credentials[i].Vendor \notin {"", arg.d.Vendor} /\ arg.d.Vendor # ""
    /\ arg.d.Firmware = "AnthillOS" \/ arg.d.Vendor = "whatsminer"
    /\ ~arg.TryDefaultCreds \/ arg.defaults = << >>

\* C17 (amended): the list buildCreds returns is never empty; it is the
\* synthetic no-auth candidate alone when neither a factory pair nor a stored
\* credential nor a built-in default applies, and holds no synthetic candidate
\* when one does.
C17_NeverEmpty ==
    fpc = "returned" =>
        /\ Len(out) >= 1
        /\ NothingToTry => out = <<Cred("no-auth", "", "")>>
        /\ ~NothingToTry => \A i \in 1..Len(out) : out[i].Name # "no-auth"

\* C17 witness: for a device on third-party firmware, with the stored
\* credentials disabled or not decryptable, the list is the no-auth candidate.
C17_Witness ==
    /\ fpc = "returned"
    /\ arg.d.Firmware = "AnthillOS"
    /\ Len(arg.credentials) >= 1
    /\ NothingToTry
    /\ out = <<Cred("no-auth", "", "")>>

\* the stored credential behind an entry of the list, if there is one
StoredAs(c) == {i \in 1..Len(arg.credentials) : arg.credentials[i].Name = c.Name}

ClassMatches(c) ==
    \E i \in StoredAs(c) :
        ToLower(TrimSpace(arg.credentials[i].Firmware)) = DevClass(arg.d)

\* C18 (as claimed): in the list buildCreds returns, every stored credential of
\* the device's firmware class precedes every stored credential of another
\* class, whatever their priorities.
C18_ClassBeatsPriority ==
    fpc = "returned" =>
        \A i, j \in 1..Len(out) :
            (i < j /\ StoredAs(out[i]) # {} /\ StoredAs(out[j]) # {}) =>
                ~(~ClassMatches(out[i]) /\ ClassMatches(out[j]))

FactoryPairs == StockPairs([Vendor |-> "antminer", Firmware |-> ""])

\* C21 (as claimed): no field of a registry device carries the plaintext
\* password of a credential candidate: neither AuthCredName nor AuthError
\* contains the password of a candidate buildCreds hands to the probers.
C21_NoPlaintextPassword ==
    \A ip \in DOMAIN byIP :
        \A i \in 1..Len(FactoryPairs) :
            /\ ~Contains(byIP[ip].AuthCredName, FactoryPairs[i].Password)
            /\ ~Contains(byIP[ip].AuthError, FactoryPairs[i].Password)

(***************************************************************************)
(* subnets.Store.AddWithNote: a spec is stored as an address pool.         *)
(***************************************************************************)
SpecParts ==
    {Cidr(<<10, 0, 0, 4>>, 30), Range(<<10, 0, 0, 9>>, <<10, 0, 0, 10>>),
     BadCidr, BadRange, Blank}

\* the specs handed to AddWithNote: one to three segments
SubnetSpecs ==
    {<<p>> : p \in SpecParts}
    \cup {<<p, q>> : p, q \in SpecParts}
    \cup {<<p, q, r>> : p, q, r \in SpecParts}

\* strings.Contains(spec, "/")
HasSlash(spec) == \E i \in 1..Len(spec) : spec[i].kind = "cidr"

\* net.ParseCIDR on the whole spec: one CIDR block and nothing else
ParseCIDRWhole(spec) == Len(spec) = 1 /\ spec[1].kind = "cidr" /\ spec[1].ok

\* the error AddWithNote returns, "" when it stores the spec
AddWithNoteError(spec) ==
    IF spec = << >> THEN "cidr is empty"
    ELSE IF HasSlash(spec)
         THEN IF ParseCIDRWhole(spec) THEN "" ELSE "invalid CIDR address"
         ELSE IF PreviewSpec(spec).Valid THEN "" ELSE PreviewSpec(spec).Error

\* AddWithNote(spec, ""): the pool is stored under the next id, enabled
AddWithNote ==
    /\ fpc = "call"
    /\ out' = [err  |-> AddWithNoteError(arg),
               byID |-> IF AddWithNoteError(arg) = ""
                        THEN 1 :> [ID |-> 1, CIDR |-> arg, Enabled |-> TRUE]
                        ELSE << >>,
               scan |-> ""]
    /\ fpc' = IF AddWithNoteError(arg) = "" THEN "stored" ELSE "refused"
    /\ UNCHANGED <<regVars, probeVars, sseVars, apiVars, scanVars, addrVars, arg>>

\* ScanSpec on a stored pool, up to its test of the preview
ScanStored ==
    /\ fpc = "stored"
    /\ out' = [out EXCEPT !.scan = IF PreviewSpec(out.byID[1].CIDR).Valid
                                   THEN "started" ELSE "bad spec"]
    /\ fpc' = "scanned"
    /\ UNCHANGED <<regVars, probeVars, sseVars, apiVars, scanVars, addrVars, arg>>

InitSubnets ==
    NoHost /\ InitScan({<< >>}) /\ InitAddr({Blank}) /\ InitCall(SubnetSpecs)

NextSubnets ==
    \/ AddWithNote
    \/ ScanStored

SpecSubnets == InitSubnets /\ [][NextSubnets]_vars

\* C22 (as claimed): a spec whose segments are each a valid CIDR block or a
\* valid range, one that PreviewSpec reports valid, is accepted by AddWithNote,
\* and a spec AddWithNote accepted is scanned without a bad-spec error.
C22_ValidSpecIsStored ==
    /\ (fpc # "call" /\ PreviewSpec(arg).Valid) => out.err = ""
    /\ fpc = "scanned" => out.scan # "bad spec"

(***************************************************************************)
(* buildDigestAuth: the Authorization header of the Digest retry.          *)
(***************************************************************************)
MaxCalls == 2      \* calls of buildDigestAuth with the same arguments

\* md5hex: the digest of a text, the text being the sequence of its pieces
md5hex(text) == [md5 |-> text]

\* randHex(8): what crypto/rand can return
CNonces == {"0a1b2c3d4e5f6071", "8899aabbccddeeff"}

\* qop: "auth" unless the challenge names a qop that does not mention auth
DigestQop(c) ==
    IF c.Qop # "" /\ ~Contains(ToLower(c.Qop), "auth") THEN "" ELSE "auth"

\* variant: the client nonce is left out of the response
DigestResponseNoCnonce(username, password, method, uri, c, cnonce) ==
    LET ha1 == md5hex(<<username, ":", c.Realm, ":", password>>)
        ha2 == md5hex(<<method, ":", uri>>)
    IN  md5hex(<<ha1, ":", c.Nonce, ":", ha2>>)

\* resp
DigestResponse(username, password, method, uri, c, cnonce) ==
    LET ha1 == md5hex(<<username, ":", c.Realm, ":", password>>)
        ha2 == md5hex(<<method, ":", uri>>)
        nc  == "00000001"
        qop == DigestQop(c)
    IN  IF qop # ""
        THEN md5hex(<<ha1, ":", c.Nonce, ":", nc, ":", cnonce, ":", qop, ":", ha2>>)
        ELSE md5hex(<<ha1, ":", c.Nonce, ":", ha2>>)

\* the header buildDigestAuth composes, by its fields ("" for a field left out)
DigestHeader(username, password, method, uri, c, cnonce) ==
    [username |-> username, realm |-> c.Realm, nonce |-> c.Nonce, uri |-> uri,
     response |-> DigestResponse(username, password, method, uri, c, cnonce),
     opaque   |-> c.Opaque,
     qop      |-> DigestQop(c),
     nc       |-> IF DigestQop(c) # "" THEN "00000001" ELSE "",
     cnonce   |-> IF DigestQop(c) # "" THEN cnonce ELSE ""]

DigestCalls ==
    { [username |-> "root", password |-> pw, method |-> "GET", uri |-> u,
       c |-> [Realm |-> "antMiner Configuration", Nonce |-> n, Qop |-> q,
              Algo |-> "MD5", Opaque |-> o]] :
        pw \in {"root", "admin"},
        u \in {"/cgi-bin/stats.cgi", "/cgi-bin/summary.cgi"},
        n \in {"5f3a", "77c1"}, q \in {"", "auth", "auth,auth-int", "token"},
        o \in {"", "b2d1"} }

\* one call of buildDigestAuth; out collects the headers of the calls so far
buildDigestAuth ==
    /\ fpc = "call"
    /\ Len(out) < MaxCalls
    /\ \E cnonce \in CNonces :
          out' = Append(out, DigestHeader(arg.username, arg.password, arg.method,
                                          arg.uri, arg.c, cnonce))
    /\ UNCHANGED <<regVars, probeVars, sseVars, apiVars, scanVars, addrVars, arg, fpc>>

InitDigest ==
    NoHost /\ InitScan({<< >>}) /\ InitAddr({Blank}) /\ InitCall(DigestCalls)

NextDigest == buildDigestAuth

SpecDigest == InitDigest /\ [][NextDigest]_vars

\* MD5(HA1:nonce:nc:cnonce:qop:HA2) with qop = auth, for the arguments of the
\* call and a client nonce
QopAuthVector(cnonce) ==
    [md5 |-> << [md5 |-> <<arg.username, ":", arg.c.Realm, ":", arg.password>>],
                ":", arg.c.Nonce, ":", "00000001", ":", cnonce, ":", "auth", ":",
                [md5 |-> <<arg.method, ":", arg.uri>>] >>]

\* MD5(HA1:nonce:HA2), the response without qop
NoQopVector ==
    [md5 |-> << [md5 |-> <<arg.username, ":", arg.c.Realm, ":", arg.password>>],
                ":", arg.c.Nonce, ":",
                [md5 |-> <<arg.method, ":", arg.uri>>] >>]

\* C23 (as claimed): the response of buildDigestAuth is
\* MD5(HA1:nonce:nc:cnonce:qop:HA2) with qop = auth, and for fixed arguments it
\* is one fixed value on every call.
C23_FixedTestVector ==
    /\ \A i \in 1..Len(out) : \E cnonce \in CNonces : out[i].response = QopAuthVector(cnonce)
    /\ \A i, j \in 1..Len(out) : out[i].response = out[j].response

\* C23 (amended): when the challenge names no qop or one that mentions auth,
\* the response is MD5(HA1:nonce:00000001:cnonce:auth:HA2) for the client nonce
\* the returned header carries, which is drawn anew on every call; otherwise
\* it is MD5(HA1:nonce:HA2) and the header carries no qop, nc or cnonce.  Two
\* calls with the same arguments give the same response exactly when they
\* carry the same client nonce.
C23_VectorGivenCnonce ==
    /\ \A i \in 1..Len(out) :
          IF arg.c.Qop \in {"", "auth", "auth,auth-int"}
          THEN /\ out[i].qop = "auth" /\ out[i].nc = "00000001"
               /\ out[i].cnonce \in CNonces
               /\ out[i].response = QopAuthVector(out[i].cnonce)
          ELSE /\ out[i].qop = "" /\ out[i].nc = "" /\ out[i].cnonce = ""
               /\ out[i].response = NoQopVector
    /\ \A i, j \in 1..Len(out) :
          out[i].response = out[j].response <=> out[i].cnonce = out[j].cnonce

\* C23 witness: two calls with the same arguments and a qop of auth have drawn
\* different client nonces and return different responses.
C23_Witness ==
    /\ Len(out) = 2
    /\ arg.c.Qop = "auth"
    /\ out[1].cnonce # out[2].cnonce
    /\ out[1].response # out[2].response

(***************************************************************************)
(* runProbe: the scheme list it hands to a prober.                         *)
(***************************************************************************)
\* variant: no default when port 80 was not seen open
StockSchemesNoDefault(openPorts) ==
    (IF hasPort(openPorts, 80) THEN <<"http">> ELSE << >>)
    \o (IF hasPort(openPorts, 443) THEN <<"https">> ELSE << >>)

\* schemes, as runProbe builds it before the stock probe
StockSchemes(openPorts) ==
    LET seen80  == IF hasPort(openPorts, 80) THEN <<"http">> ELSE << >>
        has443  == hasPort(openPorts, 443)
        first   == IF Len(seen80) = 0 THEN <<"http">> ELSE seen80
    IN  IF has443 THEN Append(first, "https") ELSE first

\* schemes of the whatsminer probe
WhatsminerSchemes == <<"http">>

PortLists ==
    {<< >>} \cup {<<p>> : p \in {80, 443, 4028}}
    \cup {<<p, q>> \in {80, 443, 4028} \X {80, 443, 4028} : p # q}
    \cup {<<p, q, r>> \in {80, 443, 4028} \X {80, 443, 4028} \X {80, 443, 4028} :
              p # q /\ q # r /\ p # r}

SchemeCalls ==
    { [Vendor |-> v, Firmware |-> f, OpenPorts |-> ports] :
        v \in {"whatsminer", "antminer", "asic", "", "unknown"},
        f \in {"", "AnthillOS"}, ports \in PortLists }

\* runProbe up to its first prober call: whatsminer, or the stock CGI prober
RunProbeSchemes ==
    /\ fpc = "call"
    /\ StockClassVendor(ProbeVendor(arg)) \/ ProbeVendor(arg) = "whatsminer"
    /\ out' = IF ProbeVendor(arg) = "whatsminer"
              THEN [prober |-> "whatsminer", schemes |-> WhatsminerSchemes]
              ELSE [prober |-> "stock", schemes |-> StockSchemes(arg.OpenPorts)]
    /\ fpc' = "probing"
    /\ UNCHANGED <<regVars, probeVars, sseVars, apiVars, scanVars, addrVars, arg>>

\* the stock probe failed and runProbe calls the vnish prober with the same list
RunProbeSchemesVnish ==
    /\ fpc = "probing"
    /\ out.prober = "stock"
    /\ out' = [out EXCEPT !.prober = "vnish"]
    /\ fpc' = "fallback"
    /\ UNCHANGED <<regVars, probeVars, sseVars, apiVars, scanVars, addrVars, arg>>

InitSchemes ==
    NoHost /\ InitScan({<< >>}) /\ InitAddr({Blank}) /\ InitCall(SchemeCalls)

NextSchemes ==
    \/ RunProbeSchemes
    \/ RunProbeSchemesVnish

SpecSchemes == InitSchemes /\ [][NextSchemes]_vars

Seen443 == \E i \in 1..Len(arg.OpenPorts) : arg.OpenPorts[i] = 443

\* C24: the scheme list runProbe hands to a prober contains http, and https
\* only if 443 is among the device's OpenPorts; for the stock CGI and the vnish
\* prober it is http alone when 443 is not open and http, https when it is.
C24_SchemesFollowPorts ==
    fpc # "call" =>
        /\ \E i \in 1..Len(out.schemes) : out.schemes[i] = "http"
        /\ (\E i \in 1..Len(out.schemes) : out.schemes[i] = "https") => Seen443
        /\ out.prober \in {"stock", "vnish"} =>
               out.schemes = IF Seen443 THEN <<"http", "https">> ELSE <<"http">>

\* C24 witness: a device whose only open port is 443 is probed by the vnish
\* prober over http first and https second.
C24_Witness ==
    /\ fpc = "fallback"
    /\ out.prober = "vnish"
    /\ arg.OpenPorts = <<443>>
    /\ out.schemes = <<"http", "https">>

\* the Digest request of an exchange failed or was answered with a 401
RetryUnauthorized(x) == x.second.err \/ x.second.status = 401

\* C25: for each endpoint of a combination the stock CGI prober sends one
\* request, and a second one exactly when the first was answered 401 with a
\* Digest challenge that parses and the credential has a username; never a
\* third.  When the second fails or is answered 401 the endpoint is left as
\* unauthorized: that is the error recorded for it and it has no response.
C25_OneDigestRetry ==
    fpc \in {"loop", "returned"} =>
        /\ Len(out.sent) = out.n
        /\ \A i \in 1..out.n :
              LET x == arg.net[i] IN
              /\ out.sent[i] \in {<<"req">>, <<"req", "req2">>}
              /\ out.sent[i] = <<"req", "req2">> <=>
                    (~x.first.err /\ x.first.status = 401 /\ x.challenge
                     /\ arg.cred.Username # "")
              /\ (out.sent[i] = <<"req", "req2">> /\ RetryUnauthorized(x)) =>
                    endpoints[i] \notin DOMAIN out.Responses
        /\ (fpc = "loop" /\ out.sent[out.n] = <<"req", "req2">>
               /\ RetryUnauthorized(arg.net[out.n])) => out.lastErr = "unauthorized"

\* C25 witness: the loop has just left an endpoint whose Digest retry was
\* answered 401, after an endpoint answered 401 without a challenge, with one
\* request sent to the first and two to the second.
C25_Witness ==
    /\ fpc = "loop" /\ out.n = 2
    /\ arg.cred.Username = "root"
    /\ arg.net[1].first.status = 401 /\ ~arg.net[1].challenge
    /\ arg.net[2].challenge /\ ~arg.net[2].second.err /\ arg.net[2].second.status = 401
    /\ out.sent = << <<"req">>, <<"req", "req2">> >>
    /\ out.lastErr = "unauthorized"

(***************************************************************************)
(* probeIP: the dials and the banner requests of one host.                 *)
(***************************************************************************)
\* variant: only the web ports are dialled again
CriticalWeb(p) == p = 80 \/ p = 443

\* the ports whose failed dial is repeated
Critical(p) == p = 80 \/ p = 443 \/ p = 4028

\* what the host does to the dials of one port and to the banner requests
DialOutcomes ==
    {[first |-> TRUE, second |-> TRUE], [first |-> FALSE, second |-> TRUE],
     [first |-> FALSE, second |-> FALSE]}

BannerReplies ==
    {[err |-> TRUE, server |-> "", body |-> ""]}
    \cup {[err |-> FALSE, server |-> sv, body |-> b] :
              sv \in {"", "antminer"}, b \in {"", "anthillos", "whatsminer", "bmminer"}}

ProbeIPCalls ==
    { [dial |-> d, http |-> h, https |-> hs] :
        d \in [{80, 443, 4028, 22} -> DialOutcomes],
        h \in BannerReplies, hs \in BannerReplies }

\* fingerprintHTTP: the vendor and firmware hints of the headers and the body
fingerprintHTTP(r, reply) ==
    IF reply.err THEN r
    ELSE LET r1 == IF Contains(ToLower(reply.server), "antminer")
                   THEN [r EXCEPT !.Vendor = "antminer"] ELSE r
             body == ToLower(reply.body)
         IN  CASE body = "anthillos" ->
                    [r1 EXCEPT !.Vendor = "antminer",
                               !.Firmware = IF @ = "" THEN "AnthillOS" ELSE @]
               [] body = "whatsminer" -> [r1 EXCEPT !.Vendor = "whatsminer"]
               [] body = "bmminer" ->
                    IF r1.Vendor = "" THEN [r1 EXCEPT !.Vendor = "asic"] ELSE r1
               [] OTHER -> r1

\* variant: https is tried only when port 80 is not open
FallsBackWithout80(r, open) == ~hasPort(open, 80) /\ hasPort(open, 443)

\* r.Vendor == "" && hasPort(open, 443)
FallsBackToHTTPS(r, open) == r.Vendor = "" /\ hasPort(open, 443)

\* r, the open ports and the log of dials and banner requests before the loop
ProbeIPBlank ==
    [r |-> BlankResult("10.0.0.7", << >>), open |-> << >>, i |-> 0,
     dials |-> << >>, gets |-> << >>]

\* for _, p := range s.cfg.Ports: one port
ProbeIPDial ==
    /\ fpc \in {"call", "dial"}
    /\ LET o     == IF fpc = "call" THEN ProbeIPBlank ELSE out
           port  == Ports[o.i + 1]
           again == ~arg.dial[port].first /\ Critical(port)
           ok    == IF again THEN arg.dial[port].second ELSE arg.dial[port].first
       IN  /\ o.i < Len(Ports)
           /\ out' = [o EXCEPT
                         !.i = @ + 1,
                         !.dials = @ \o <<[port |-> port, timeout |-> 1]>>
                                     \o (IF again THEN <<[port |-> port, timeout |-> 2]>>
                                         ELSE << >>),
                         !.open = IF ok THEN Append(@, port) ELSE @]
    /\ fpc' = "dial"
    /\ UNCHANGED <<regVars, probeVars, sseVars, apiVars, scanVars, addrVars, arg>>

\* r.Open, r.Online and the two banner requests
ProbeIPFingerprint ==
    /\ fpc = "dial"
    /\ out.i = Len(Ports)
    /\ LET r0 == [out.r EXCEPT !.Open = out.open, !.Online = Len(out.open) > 0]
           r1 == IF hasPort(out.open, 80) THEN fingerprintHTTP(r0, arg.http) ELSE r0
           g1 == IF hasPort(out.open, 80) THEN <<"http">> ELSE << >>
           r2 == IF FallsBackToHTTPS(r1, out.open)
                 THEN fingerprintHTTP(r1, arg.https) ELSE r1
           g2 == IF FallsBackToHTTPS(r1, out.open) THEN <<"https">> ELSE << >>
       IN  out' = [out EXCEPT !.r = r2, !.gets = g1 \o g2]
    /\ fpc' = "fingerprinted"
    /\ UNCHANGED <<regVars, probeVars, sseVars, apiVars, scanVars, addrVars, arg>>

InitProbeIP ==
    NoHost /\ InitScan({<< >>}) /\ InitAddr({Blank}) /\ InitCall(ProbeIPCalls)

NextProbeIP ==
    \/ ProbeIPDial
    \/ ProbeIPFingerprint

SpecProbeIP == InitProbeIP /\ [][NextProbeIP]_vars

\* a dial of the port succeeded, the second being made only for 80, 443, 4028
Accepts(p) ==
    arg.dial[p].first \/ (p \in {80, 443, 4028} /\ arg.dial[p].second)

\* the answer to the http banner request names a vendor
HTTPNamesVendor ==
    Accepts(80) /\ ~arg.http.err /\ (arg.http.server # "" \/ arg.http.body # "")

\* C26 (as claimed): probeIP sends at most one banner request per host: over
\* http when port 80 is open, over https only when port 80 is not open and
\* port 443 is.
C26_OneBannerGet ==
    fpc = "fingerprinted" =>
        out.gets = IF Accepts(80) THEN <<"http">>
                   ELSE IF Accepts(443) THEN <<"https">> ELSE << >>

\* C26 (amended): probeIP sends at most two banner requests per host: one over
\* http when port 80 is open, then one over https exactly when port 443 is
\* open and no vendor is known yet, port 80 being closed or the http request
\* having failed or named no vendor.
C26_BannerGets ==
    fpc = "fingerprinted" =>
        out.gets = (IF Accepts(80) THEN <<"http">> ELSE << >>)
                   \o (IF Accepts(443) /\ ~HTTPNamesVendor THEN <<"https">> ELSE << >>)

\* C26 witness: ports 80 and 443 are open, the answer over http names no
\* vendor, and a second banner request has gone out over https.
C26_Witness ==
    /\ fpc = "fingerprinted"
    /\ Accepts(80) /\ Accepts(443)
    /\ ~arg.http.err /\ arg.http.server = "" /\ arg.http.body = ""
    /\ out.gets = <<"http", "https">>
    /\ out.r.Vendor = "whatsminer"

DialsOf(p) == SelectSeq(out.dials, LAMBDA d : d.port = p)

\* C27: probeIP dials every configured port once at the dial timeout, and a
\* second time, at twice the timeout, exactly when the first dial failed and
\* the port is 80, 443 or 4028; never a third time.  A port is in the open set
\* exactly when one of its dials succeeded, and Online is true exactly when
\* the open set is not empty.
C27_DialAtMostTwice ==
    fpc \in {"dial", "fingerprinted"} =>
        /\ \A k \in 1..out.i :
              LET p == Ports[k] IN
              /\ DialsOf(p) = IF ~arg.dial[p].first /\ p \in {80, 443, 4028}
                               THEN <<[port |-> p, timeout |-> 1], [port |-> p, timeout |-> 2]>>
                               ELSE <<[port |-> p, timeout |-> 1]>>
              /\ hasPort(out.open, p) <=>
                    \/ arg.dial[p].first
                    \/ Len(DialsOf(p)) = 2 /\ arg.dial[p].second
        /\ \A k \in (out.i + 1)..Len(Ports) : DialsOf(Ports[k]) = << >>
        /\ fpc = "fingerprinted" =>
              /\ out.r.Open = out.open
              /\ out.r.Online <=> out.open # << >>

\* C27 witness: port 4028 was opened by its second dial, port 22 failed its
\* only dial, and the host is online with 4028 as its one open port.
C27_Witness ==
    /\ fpc = "fingerprinted"
    /\ out.dials = <<[port |-> 80, timeout |-> 1], [port |-> 80, timeout |-> 2],
                     [port |-> 443, timeout |-> 1], [port |-> 443, timeout |-> 2],
                     [port |-> 4028, timeout |-> 1], [port |-> 4028, timeout |-> 2],
                     [port |-> 22, timeout |-> 1]>>
    /\ out.r.Open = <<4028>>
    /\ out.r.Online

\* the vendor, as runProbe read it, is one the stock CGI prober is tried on
StockCGIVendor(d) == d.Vendor \in {"antminer", "asic", "", "unknown"}

\* the firmware mentions anthill or vnish, or the stock probe met an HTML page
VnishHint(d, res) ==
    \/ d.Firmware \in {"AnthillOS", "Vnish 1.2"}
    \/ res.Error = "html response (no json api)"

\* C28: runProbe dispatches on the vendor it read.  A whatsminer device is
\* probed by the whatsminer prober alone; antminer, asic, blank or unknown by
\* the stock CGI prober, and by the vnish prober only after the stock probe
\* failed with a firmware that mentions anthill or vnish or with an HTML
\* response; any other vendor is not probed and ends with AuthStatus fail and
\* AuthError "unsupported vendor"; a device that is offline or not in the
\* registry is never probed.
C28_DispatchOnVendor ==
    \A w \in DOMAIN ppc :
        LET d   == pd[w]
            res == pres[w]
        IN  /\ res.path \in {"stock", "whatsminer", "vnish"} =>
                  d.Online /\ ppc[w] \in {"vnish", "done"}
            /\ res.path = "whatsminer" <=>
                  (ppc[w] = "done" /\ d.Online /\ d.Vendor = "whatsminer")
            /\ res.path \in {"stock", "vnish"} <=>
                  (ppc[w] \in {"vnish", "done"} /\ d.Online /\ StockCGIVendor(d))
            /\ (ppc[w] = "vnish" \/ res.path = "vnish") => StockCGIVendor(d)
            /\ ppc[w] = "vnish" =>
                  res.path = "stock" /\ ~res.OK /\ VnishHint(d, res)
            /\ (ppc[w] = "done" /\ d.Online /\ d.Vendor # "whatsminer" /\ ~StockCGIVendor(d)) =>
                  /\ res.path = "unsupported"
                  /\ byIP[pip[w]].AuthStatus = "fail"
                  /\ byIP[pip[w]].AuthError = "unsupported vendor"
            /\ (ppc[w] = "done" /\ res.path \in {"offline", "notfound"}) => ~d.Online

\* C28 witness: a device of another vendor has ended with "unsupported vendor"
\* without a probe.
C28_Witness ==
    \E w \in DOMAIN ppc :
        /\ ppc[w] = "done"
        /\ pd[w].Online /\ pd[w].Vendor = "avalonminer"
        /\ pres[w].path = "unsupported"
        /\ byIP[pip[w]].AuthError = "unsupported vendor"

(***************************************************************************)
(* registry.Store under its three mutations, two devices and a subscriber. *)
(***************************************************************************)
StoreIPs    == {"10.0.0.7", "10.0.0.8"}
StoreShards == {"", "scanner"}
StoreMACs   == {"", "aa:bb:cc:00:00:07"}

StoreUpsertDiscovery(shardID, ip, mac) ==
    /\ UpsertDiscovery(shardID, ip, mac, now)
    /\ UNCHANGED <<subs, probeVars, restVars>>

StoreUpsertObserved(shardID, ip, mac, online) ==
    /\ UpsertObserved(shardID, ip, mac, online, now)
    /\ UNCHANGED <<subs, probeVars, restVars>>

\* UpdateEnrichment(ip, fn) with the closure of runProbe that marks a probe
StoreUpdateEnrichment(ip) ==
    /\ UpdateEnrichment(ip, MarkTrying)
    /\ UNCHANGED <<subs, probeVars, restVars>>

InitStore ==
    InitRegistry /\ InitProbe({}, {"part_000"}) /\ InitSse({"sse1"}) /\ InitApi({})
        /\ NoNet

NextStore ==
    \/ Tick
    \/ \E c \in DOMAIN hpc : SseSubscribe(c)
    \/ \E shardID \in StoreShards, ip \in StoreIPs, mac \in StoreMACs :
          StoreUpsertDiscovery(shardID, ip, mac)
    \/ \E shardID \in StoreShards, ip \in StoreIPs, mac \in StoreMACs, online \in BOOLEAN :
          StoreUpsertObserved(shardID, ip, mac, online)
    \/ \E ip \in StoreIPs : StoreUpdateEnrichment(ip)

SpecStore == InitStore /\ [][NextStore]_vars

\* the step is an upsert called with ip
UpsertOf(ip) ==
    \E shardID \in StoreShards, mac \in StoreMACs :
        \/ StoreUpsertDiscovery(shardID, ip, mac)
        \/ \E online \in BOOLEAN : StoreUpsertObserved(shardID, ip, mac, online)

\* C29: the key set of the registry changes only when UpsertDiscovery or
\* UpsertObserved adds the IP it was called with, that IP being absent; no step
\* removes a device; UpdateEnrichment on an absent IP leaves the devices as
\* they are, creates nothing and sends no notification.
C29_KeysOnlyGrowByUpsert ==
    [][ /\ DOMAIN byIP \subseteq DOMAIN byIP'
        /\ DOMAIN byIP' # DOMAIN byIP =>
              \E ip \in StoreIPs \ DOMAIN byIP :
                  DOMAIN byIP' = DOMAIN byIP \cup {ip} /\ UpsertOf(ip)
        /\ \A ip \in StoreIPs \ DOMAIN byIP :
              StoreUpdateEnrichment(ip) => (byIP' = byIP /\ chans' = chans) ]_vars

\* C29 witness: one device is in the registry, the other IP is absent, and the
\* subscriber's channel is empty, so that a notification would show.
C29_Witness ==
    /\ DOMAIN byIP = {"10.0.0.7"}
    /\ byIP["10.0.0.7"].AuthStatus = "trying"
    /\ "sse1" \in DOMAIN chans /\ chans["sse1"].len = 0

\* the fields of a device other than those named
FieldsBut(d, names) == [f \in (DOMAIN d) \ names |-> d[f]]

\* C30: on a device that exists UpsertDiscovery changes MAC and ShardID, each
\* only to a non-empty argument, and LastSeen, and nothing else;
\* UpsertObserved changes those and Online, and nothing else.  FirstSeen and
\* the enrichment fields stay, and no step erases a MAC or a ShardID.
C30_UpsertFrame ==
    [][ /\ \A shardID \in StoreShards, ip \in DOMAIN byIP, mac \in StoreMACs :
              /\ StoreUpsertDiscovery(shardID, ip, mac) =>
                    /\ FieldsBut(byIP'[ip], {"MAC", "ShardID", "LastSeen"})
                          = FieldsBut(byIP[ip], {"MAC", "ShardID", "LastSeen"})
                    /\ mac = "" => byIP'[ip].MAC = byIP[ip].MAC
                    /\ shardID = "" => byIP'[ip].ShardID = byIP[ip].ShardID
              /\ (\E online \in BOOLEAN : StoreUpsertObserved(shardID, ip, mac, online)) =>
                    /\ FieldsBut(byIP'[ip], {"MAC", "ShardID", "LastSeen", "Online"})
                          = FieldsBut(byIP[ip], {"MAC", "ShardID", "LastSeen", "Online"})
                    /\ mac = "" => byIP'[ip].MAC = byIP[ip].MAC
                    /\ shardID = "" => byIP'[ip].ShardID = byIP[ip].ShardID
        /\ \A ip \in DOMAIN byIP :
              /\ byIP'[ip].FirstSeen = byIP[ip].FirstSeen
              /\ byIP[ip].MAC # "" => byIP'[ip].MAC # ""
              /\ byIP[ip].ShardID # "" => byIP'[ip].ShardID # "" ]_vars

\* C30 witness: a device created earlier, with a MAC, a shard and a probe
\* mark, has since been seen again.
C30_Witness ==
    \E ip \in DOMAIN byIP :
        /\ byIP[ip].MAC # "" /\ byIP[ip].ShardID # ""
        /\ byIP[ip].AuthStatus = "trying"
        /\ byIP[ip].Online
        /\ byIP[ip].FirstSeen < byIP[ip].LastSeen

\* C31 (as claimed): in a run of ScanSpec that is not cancelled every done
\* handed to onProgress lies between 0 and the TotalHosts of the preview, and
\* the run ends with as many addresses probed as the preview counted and with
\* that count reported.
C31_ProbedEqualsPreview ==
    ~scancel =>
        /\ prog.n > 0 => ~LessN(prev.TotalHosts, ToN(prog.done))
        /\ ~LessN(prev.TotalHosts, ToN(sdone))
        /\ (spc = "returned" /\ ret = "nil" /\ prev.TotalHosts # ToN(0)) =>
              /\ ToN(sdone) = prev.TotalHosts
              /\ prog.n > 0 /\ ToN(prog.done) = prev.TotalHosts
\* The executions of runProbe for ip that have marked the device and have not
\* yet made their last write.
Marking(ip) == {w \in DOMAIN ppc : pip[w] = ip /\ ppc[w] \in {"trying", "vnish"}}

\* C32: a device whose AuthStatus reads trying has a runProbe in flight that
\* marked it and has not yet written its outcome; so once the probes of an IP
\* have returned, one after the other or overlapping, the status is not trying.
C32_TryingHasProbe ==
    \A ip \in DOMAIN byIP : byIP[ip].AuthStatus = "trying" => Marking(ip) # {}

\* C32: the write with which a runProbe that marked the device ends leaves
\* AuthStatus at ok or fail.
C32_LastWrite ==
    \A w \in DOMAIN ppc :
        (ppc[w] \in {"trying", "vnish"} /\ ppc'[w] = "done") =>
            byIP'[pip[w]].AuthStatus \in {"ok", "fail"}

\* C32: every runProbe that sets AuthStatus to trying leaves it at ok or fail
\* before it returns, and after all probes of an IP have returned the status is
\* ok or fail, never trying.
C32_NeverLeftTrying == []C32_TryingHasProbe /\ [][C32_LastWrite]_vars

\* C32 witness: two probes of the device overlapped, the second marked it while
\* the first was between its mark and its outcome, and both have returned.
C32_Witness ==
    /\ \A w \in DOMAIN ppc : ppc[w] = "idle"
    /\ \E ip \in DOMAIN byIP : byIP[ip].AuthStatus = "ok" /\ byIP[ip].AuthError = "unauthorized"
\* The executions of runProbe for ip that have read the device and have not
\* yet made their last write.
InFlight(ip) ==
    {w \in DOMAIN ppc : pip[w] = ip /\ ppc[w] \in {"got", "offline", "trying", "vnish"}}

\* C33 (as claimed): at any time at most one execution of runProbe is in flight
\* for an IP, counting the enrichment workers and the handler of
\* POST /api/devices/{ip}/probe.
C33_OneProbePerIP == \A ip \in IPs : Cardinality(InFlight(ip)) <= 1
(***************************************************************************)
(* The scans of the subnets: the scans map of the main package of          *)
(* src/unnamed/part_000, runScan and the handlers that start and stop it.  *)
(* The state is kept in out:                                               *)
(*   scans     the map from subnet id to the scan whose cancel it holds    *)
(*             (0: no entry),                                              *)
(*   runs      the scans in the order of their scanCtx, each with the      *)
(*             position of its handler or goroutine, whether its context   *)
(*             is cancelled and the position of ScanSpec's ticker          *)
(*             goroutine,                                                  *)
(*   subnets   the subnet store: which ids it holds, with Scanning and     *)
(*             Progress,                                                   *)
(*   starting, stopping, deleting                                          *)
(*             the ids for which a handler stands between two of its       *)
(*             locked sections.                                            *)
(***************************************************************************)
MaxRuns == 2      \* scans started in one behaviour

SubnetIDs == {1}

NoSubnet == [stored |-> FALSE, Scanning |-> FALSE, Progress |-> 0]

\* Store.SetScanState on the map of subnets (LastScanAt and UpdatedAt left out)
SetScanState(byID, id, scanning, progress) ==
    IF byID[id].stored
    THEN [byID EXCEPT ![id].Scanning = scanning, ![id].Progress = progress]
    ELSE byID

\* j.cancel() for the entry of id, when there is one
CancelEntry(runs, scans, id) ==
    IF scans[id] = 0 THEN runs ELSE [runs EXCEPT ![scans[id]].cancelled = TRUE]

\* the goroutines of runScan that have been started and have not finished
ActiveRuns(id) ==
    {j \in 1..Len(out.runs) :
        out.runs[j].id = id /\ out.runs[j].pc \in {"running", "returned", "deleted"}}

ScanFrame == UNCHANGED <<regVars, probeVars, sseVars, apiVars, scanVars, addrVars, arg, fpc>>

\* POST /api/subnets/{id}/scan: sub, ok := subnetsStore.Get(id)
ScanRequest(id) ==
    /\ out.subnets[id].stored
    /\ id \notin out.starting
    /\ out' = [out EXCEPT !.starting = @ \cup {id}]
    /\ ScanFrame

\* POST /api/subnets/scan_all: for _, sn := range subnetsStore.List()
\* (every subnet of the model is enabled)
ScanAllRequest ==
    LET listed == {id \in SubnetIDs : out.subnets[id].stored} IN
    /\ listed \ out.starting # {}
    /\ out' = [out EXCEPT !.starting = @ \cup listed]
    /\ ScanFrame

\* scan and scan_all: the section under scanMu
StartInsert(id) ==
    /\ id \in out.starting
    /\ IF out.scans[id] # 0
       THEN out' = [out EXCEPT !.starting = @ \ {id}]
       ELSE /\ Len(out.runs) < MaxRuns
            /\ out' = [out EXCEPT
                  !.starting = @ \ {id},
                  !.runs = Append(@, [id |-> id, pc |-> "new", cancelled |-> FALSE,
                                      tick |-> "idle"]),
                  !.scans[id] = Len(out.runs) + 1]
    /\ ScanFrame

\* scan and scan_all: subnetsStore.SetScanState(id, true, 0, time.Time{})
StartMark(j) ==
    /\ out.runs[j].pc = "new"
    /\ out' = [out EXCEPT
          !.subnets = SetScanState(@, out.runs[j].id, TRUE, 0),
          !.runs[j].pc = "marked"]
    /\ ScanFrame

\* scan and scan_all: go runScan(scanCtx, id, sub.CIDR)
StartGo(j) ==
    /\ out.runs[j].pc = "marked"
    /\ out' = [out EXCEPT !.runs[j].pc = "running"]
    /\ ScanFrame

\* ScanSpec's ticker goroutine receives a tick and reads done in report()
ScanTick(j) ==
    /\ out.runs[j].pc = "running"
    /\ out.runs[j].tick = "idle"
    /\ out' = [out EXCEPT !.runs[j].tick = "report"]
    /\ ScanFrame

\* the ticker goroutine's report() calls runScan's onProgress closure
ScanProgress(j) ==
    /\ out.runs[j].tick = "report"
    /\ out' = [out EXCEPT
          !.subnets = SetScanState(@, out.runs[j].id, TRUE, 50),
          !.runs[j].tick = "idle"]
    /\ ScanFrame

\* ScanSpec returns: after its last report() when it ran to the end, without
\* it on a refused or empty spec and on ctx.Done()
ScanReturns(j) ==
    /\ out.runs[j].pc = "running"
    /\ \E reported \in BOOLEAN :
          out' = [out EXCEPT
              !.subnets = IF reported THEN SetScanState(@, out.runs[j].id, TRUE, 100) ELSE @,
              !.runs[j].pc = "returned"]
    /\ ScanFrame

\* runScan's defer: delete(scans, subnetID) under scanMu
RunDeferDelete(j) ==
    /\ out.runs[j].pc = "returned"
    /\ out' = [out EXCEPT !.scans[out.runs[j].id] = 0, !.runs[j].pc = "deleted"]
    /\ ScanFrame

\* runScan's defer: subnetsStore.SetScanState(subnetID, false, 100, now)
RunDeferState(j) ==
    /\ out.runs[j].pc = "deleted"
    /\ out' = [out EXCEPT
          !.subnets = SetScanState(@, out.runs[j].id, FALSE, 100),
          !.runs[j].pc = "ended"]
    /\ ScanFrame

\* POST /api/subnets/{id}/stop: the section under scanMu, with an entry found
StopLock(id) ==
    /\ out.scans[id] # 0
    /\ id \notin out.stopping
    /\ out' = [out EXCEPT
          !.runs = CancelEntry(@, out.scans, id),
          !.scans[id] = 0,
          !.stopping = @ \cup {id}]
    /\ ScanFrame

\* POST /api/subnets/{id}/stop: if ok { SetScanState(id, false, 0, now) }
StopState(id) ==
    /\ id \in out.stopping
    /\ out' = [out EXCEPT
          !.subnets = SetScanState(@, id, FALSE, 0),
          !.stopping = @ \ {id}]
    /\ ScanFrame

RECURSIVE StopEach(_, _)
\* POST /api/subnets/stop_all: for id, j := range scans, all under scanMu
StopEach(s, ids) ==
    IF ids = {} THEN s
    ELSE LET id == CHOOSE x \in ids : TRUE IN
         StopEach([s EXCEPT !.runs = CancelEntry(@, s.scans, id),
                            !.scans[id] = 0,
                            !.subnets = SetScanState(@, id, FALSE, 0)],
                  ids \ {id})

StopAll ==
    LET entries == {id \in SubnetIDs : out.scans[id] # 0} IN
    /\ entries # {}
    /\ out' = StopEach(out, entries)
    /\ ScanFrame

\* DELETE /api/subnets/{id}: the section under scanMu
DeleteLock(id) ==
    /\ out.subnets[id].stored
    /\ id \notin out.deleting
    /\ out' = [out EXCEPT
          !.runs = CancelEntry(@, out.scans, id),
          !.scans[id] = 0,
          !.deleting = @ \cup {id}]
    /\ ScanFrame

\* DELETE /api/subnets/{id}: subnetsStore.Delete(id)
DeleteStore(id) ==
    /\ id \in out.deleting
    /\ out' = [out EXCEPT !.subnets[id] = NoSubnet, !.deleting = @ \ {id}]
    /\ ScanFrame

InitSubnetScans ==
    /\ NoHost /\ InitScan({<< >>}) /\ InitAddr({Blank})
    /\ arg = << >>
    /\ fpc = "call"
    /\ out = [scans |-> [id \in SubnetIDs |-> 0],
              runs |-> << >>,
              subnets |-> [id \in SubnetIDs |-> [NoSubnet EXCEPT !.stored = TRUE]],
              starting |-> {}, stopping |-> {}, deleting |-> {}]

NextSubnetScans ==
    \/ \E id \in SubnetIDs : ScanRequest(id)
    \/ ScanAllRequest
    \/ \E id \in SubnetIDs : StartInsert(id)
    \/ \E j \in 1..Len(out.runs) : StartMark(j)
    \/ \E j \in 1..Len(out.runs) : StartGo(j)
    \/ \E j \in 1..Len(out.runs) : ScanTick(j)
    \/ \E j \in 1..Len(out.runs) : ScanProgress(j)
    \/ \E j \in 1..Len(out.runs) : ScanReturns(j)
    \/ \E j \in 1..Len(out.runs) : RunDeferDelete(j)
    \/ \E j \in 1..Len(out.runs) : RunDeferState(j)
    \/ \E id \in SubnetIDs : StopLock(id)
    \/ \E id \in SubnetIDs : StopState(id)
    \/ StopAll
    \/ \E id \in SubnetIDs : DeleteLock(id)
    \/ \E id \in SubnetIDs : DeleteStore(id)

SpecSubnetScans == InitSubnetScans /\ [][NextSubnetScans]_vars

\* C34 (as claimed): at any time at most one goroutine of runScan is active per
\* subnet id, whatever the order of the scan, scan_all, stop, stop_all and
\* delete handlers and of the scans ending.
C34_OneRunScanPerSubnet == \A id \in SubnetIDs : Cardinality(ActiveRuns(id)) <= 1

\* C35 (as claimed): while the ScanSpec of a runScan goroutine is in progress
\* and its context is not cancelled, the scans map holds that scan's cancel
\* under the subnet id; the end of an earlier scan does not remove it.
C35_EntryWhileScanning ==
    \A j \in 1..Len(out.runs) :
        (out.runs[j].pc = "running" /\ ~out.runs[j].cancelled) =>
            out.scans[out.runs[j].id] = j

\* C36 (as claimed): when every scan of a stored subnet has ended, ScanSpec
\* returned and runScan wrote Scanning = false, and no handler is about to
\* start another, the subnet's Scanning flag is false.
C36_ScanningFalseAfterEnd ==
    \A id \in SubnetIDs :
        (/\ out.subnets[id].stored
         /\ id \notin out.starting
         /\ \E j \in 1..Len(out.runs) : out.runs[j].id = id
         /\ \A j \in 1..Len(out.runs) : out.runs[j].id = id => out.runs[j].pc = "ended")
            => ~out.subnets[id].Scanning
(***************************************************************************)
(* The two locks of the registry store, s.mu and s.subMu, at the grain of  *)
(* their Lock and Unlock calls.  The state is kept in out:                 *)
(*   pc        the position of every thread,                               *)
(*   mu        the thread that holds s.mu for writing ("": none),          *)
(*   readers   the threads that hold s.mu for reading,                     *)
(*   subMu     the thread that holds s.subMu ("": none),                   *)
(*   subs      the ids registered in s.subs,                               *)
(*   ch        per subscriber the signals queued in its channel and how    *)
(*             often the channel has been closed,                          *)
(*   ctxDone   the subscribers whose context is cancelled,                 *)
(*   panicked  whether a send on a closed channel has happened.            *)
(* A reader is admitted whenever no writer holds s.mu; sync.RWMutex also   *)
(* holds readers back behind a waiting writer, which removes interleavings *)
(* and, List taking no second lock, adds no wait.                          *)
(***************************************************************************)
Mutators    == {"upsert", "enrich"}     \* callers of the Upsert and UpdateEnrichment methods
Listers     == {"list"}                 \* callers of List
Subscribers == {"sub1", "sub2"}         \* callers of Subscribe, who then receive
Cleaner     == [c \in Subscribers |-> IF c = "sub1" THEN "go1" ELSE "go2"]
Cleaners    == {Cleaner[c] : c \in Subscribers}
Threads     == Mutators \cup Listers \cup Subscribers \cup Cleaners

LockFrame == UNCHANGED <<regVars, probeVars, sseVars, apiVars, scanVars, addrVars, arg, fpc>>

\* a mutation of the store or a List is called
StoreCall(t) ==
    /\ t \in Mutators \cup Listers
    /\ out.pc[t] = "idle"
    /\ out' = [out EXCEPT !.pc[t] = "wantMu"]
    /\ LockFrame

\* UpsertDiscovery, UpdateEnrichment, UpsertObserved: s.mu.Lock()
MutLock(t) ==
    /\ t \in Mutators
    /\ out.pc[t] = "wantMu"
    /\ out.mu = "" /\ out.readers = {}
    /\ out' = [out EXCEPT !.mu = t, !.pc[t] = "wantSubMu"]
    /\ LockFrame

\* notifyLocked: s.subMu.Lock(), called with s.mu held
MutNotifyLock(t) ==
    /\ t \in Mutators
    /\ out.pc[t] = "wantSubMu"
    /\ out.subMu = ""
    /\ out' = [out EXCEPT !.subMu = t, !.pc[t] = "notify"]
    /\ LockFrame

\* notifyLocked: the loop over s.subs and the deferred s.subMu.Unlock(); a send
\* on a closed channel panics
MutNotify(t) ==
    /\ t \in Mutators
    /\ out.pc[t] = "notify"
    /\ out' = [out EXCEPT
          !.ch = [c \in Subscribers |->
                     IF c \in out.subs /\ out.ch[c].closes = 0
                     THEN [out.ch[c] EXCEPT !.len = IF @ < ChanCap THEN @ + 1 ELSE @]
                     ELSE out.ch[c]],
          !.panicked = @ \/ \E c \in out.subs : out.ch[c].closes > 0,
          !.subMu = "",
          !.pc[t] = "unlockMu"]
    /\ LockFrame

\* the deferred s.mu.Unlock() of the mutation
MutUnlock(t) ==
    /\ t \in Mutators
    /\ out.pc[t] = "unlockMu"
    /\ out' = [out EXCEPT !.mu = "", !.pc[t] = "idle"]
    /\ LockFrame

\* List: s.mu.RLock()
ListRLock(t) ==
    /\ t \in Listers
    /\ out.pc[t] = "wantMu"
    /\ out.mu = ""
    /\ out' = [out EXCEPT !.readers = @ \cup {t}, !.pc[t] = "reading"]
    /\ LockFrame

\* List: the copies are made and the deferred s.mu.RUnlock() runs
ListRUnlock(t) ==
    /\ t \in Listers
    /\ out.pc[t] = "reading"
    /\ out' = [out EXCEPT !.readers = @ \ {t}, !.pc[t] = "idle"]
    /\ LockFrame

\* Subscribe is called: id, ch := ...
SubscribeCall(c) ==
    /\ out.pc[c] = "new"
    /\ out' = [out EXCEPT !.pc[c] = "wantSubMu"]
    /\ LockFrame

\* Subscribe: s.subMu.Lock()
SubscribeLock(c) ==
    /\ c \in Subscribers
    /\ out.pc[c] = "wantSubMu"
    /\ out.subMu = ""
    /\ out' = [out EXCEPT !.subMu = c, !.pc[c] = "register"]
    /\ LockFrame

\* Subscribe: s.subs[id] = ch; s.subMu.Unlock(); go func() { <-ctx.Done() ...
SubscribeRegister(c) ==
    /\ out.pc[c] = "register"
    /\ out' = [out EXCEPT !.subs = @ \cup {c}, !.subMu = "",
                          !.pc[c] = "subscribed", !.pc[Cleaner[c]] = "waitCtx"]
    /\ LockFrame

\* the subscriber takes a signal out of its channel
SubscriberReceive(c) ==
    /\ out.pc[c] = "subscribed"
    /\ out.ch[c].len > 0
    /\ out' = [out EXCEPT !.ch[c].len = @ - 1]
    /\ LockFrame

\* the subscriber's context is cancelled
CtxCancel(c) ==
    /\ c \notin out.ctxDone
    /\ out' = [out EXCEPT !.ctxDone = @ \cup {c}]
    /\ LockFrame

\* the goroutine of Subscribe: <-ctx.Done()
CleanerWake(c) ==
    /\ out.pc[Cleaner[c]] = "waitCtx"
    /\ c \in out.ctxDone
    /\ out' = [out EXCEPT !.pc[Cleaner[c]] = "wantSubMu"]
    /\ LockFrame

\* the goroutine of Subscribe: s.subMu.Lock()
CleanerLock(c) ==
    /\ out.pc[Cleaner[c]] = "wantSubMu"
    /\ out.subMu = ""
    /\ out' = [out EXCEPT !.subMu = Cleaner[c], !.pc[Cleaner[c]] = "close"]
    /\ LockFrame

\* variant: the channel is closed and its entry stays in s.subs
CleanerCloseOnly(c) ==
    /\ out.pc[Cleaner[c]] = "close"
    /\ out' = [out EXCEPT !.ch[c].closes = @ + 1,
                          !.subMu = "", !.pc[Cleaner[c]] = "done"]
    /\ LockFrame

\* the goroutine of Subscribe: delete(s.subs, id); close(ch); s.subMu.Unlock()
CleanerClose(c) ==
    /\ out.pc[Cleaner[c]] = "close"
    /\ out' = [out EXCEPT !.subs = @ \ {c}, !.ch[c].closes = @ + 1,
                          !.subMu = "", !.pc[Cleaner[c]] = "done"]
    /\ LockFrame

InitLocks ==
    /\ NoHost /\ InitScan({<< >>}) /\ InitAddr({Blank})
    /\ arg = << >>
    /\ fpc = "call"
    /\ out = [pc |-> [t \in Threads |->
                         IF t \in Subscribers THEN "new"
                         ELSE IF t \in Cleaners THEN "none" ELSE "idle"],
              mu |-> "", readers |-> {}, subMu |-> "", subs |-> {},
              ch |-> [c \in Subscribers |-> [len |-> 0, closes |-> 0]],
              ctxDone |-> {}, panicked |-> FALSE]

NextLocks ==
    \/ \E t \in Mutators \cup Listers : StoreCall(t)
    \/ \E t \in Mutators : MutLock(t)
    \/ \E t \in Mutators : MutNotifyLock(t)
    \/ \E t \in Mutators : MutNotify(t)
    \/ \E t \in Mutators : MutUnlock(t)
    \/ \E t \in Listers : ListRLock(t)
    \/ \E t \in Listers : ListRUnlock(t)
    \/ \E c \in Subscribers : SubscribeCall(c)
    \/ \E c \in Subscribers : SubscribeLock(c)
    \/ \E c \in Subscribers : SubscribeRegister(c)
    \/ \E c \in Subscribers : SubscriberReceive(c)
    \/ \E c \in Subscribers : CtxCancel(c)
    \/ \E c \in Subscribers : CleanerWake(c)
    \/ \E c \in Subscribers : CleanerLock(c)
    \/ \E c \in Subscribers : CleanerClose(c)

SpecLocks == InitLocks /\ [][NextLocks]_vars

\* the threads that hold what t is waiting for
Blockers(t) ==
    IF out.pc[t] = "wantSubMu" THEN IF out.subMu = "" THEN {} ELSE {out.subMu}
    ELSE IF out.pc[t] = "wantMu"
         THEN (IF out.mu = "" THEN {} ELSE {out.mu})
                  \cup (IF t \in Mutators THEN out.readers ELSE {})
    ELSE {}

\* a set of threads each of which waits for a lock held inside the set
Deadlocked(S) == S # {} /\ \A t \in S : Blockers(t) \cap S # {}

\* C37: for every interleaving of mutations, List, Subscribe and the
\* cancellation of subscriber contexts no signal is sent on a closed channel,
\* the channel of a cancelled subscriber is closed once, by the goroutine that
\* removes it from s.subs, and no set of threads waits in a circle for s.mu
\* and s.subMu.
C37_SubscribersAndLocks ==
    /\ ~out.panicked
    /\ \A c \in out.subs : out.ch[c].closes = 0
    /\ \A c \in Subscribers :
          /\ out.ch[c].closes <= 1
          /\ out.pc[Cleaner[c]] = "done" <=> out.ch[c].closes = 1
          /\ out.pc[Cleaner[c]] = "done" => c \in out.ctxDone /\ c \notin out.subs
    /\ \A S \in SUBSET Threads : ~Deadlocked(S)

\* C37 witness: a mutation signals the remaining subscriber after the channel
\* of a cancelled one has been closed, while another mutation waits for s.mu
\* and the last goroutine of Subscribe waits for s.subMu.
C37_Witness ==
    /\ out.pc[Cleaner["sub1"]] = "done" /\ out.ch["sub1"].closes = 1
    /\ out.pc["upsert"] = "notify" /\ "sub2" \in out.subs
    /\ out.pc["enrich"] = "wantMu"
    /\ out.pc[Cleaner["sub2"]] = "wantSubMu"
    /\ out.pc["list"] = "wantMu"
(***************************************************************************)
(* ExtractFacts of the three probers: the model and the MAC address read   *)
(* from the parsed responses.  A JSON value is a string or an object, an   *)
(* object a function from its keys to values.  Go ranges over a map in an  *)
(* order that differs from one loop to the next, so what a loop over a map *)
(* returns is the set of the values it can return.                         *)
(***************************************************************************)
Str(s) == [kind |-> "string", s |-> s, o |-> << >>]
Obj(o) == [kind |-> "object", s |-> "", o |-> o]

\* a loop that returns the first non-empty result, over results drawn from F
FirstNonEmptyOf(F) ==
    ((UNION F) \ {""}) \cup (IF \A S \in F : "" \in S THEN {""} ELSE {})

RECURSIVE findStringDeep(_, _)
\* findStringDeep(v, wanted): the values it can return
findStringDeep(v, wanted) ==
    IF v.kind # "object" THEN {""}
    ELSE LET x    == v.o
             hits == {k \in DOMAIN x : /\ ToLower(TrimSpace(k)) \in wanted
                                       /\ x[k].kind = "string"
                                       /\ TrimSpace(x[k].s) # ""}
         IN  IF hits # {} THEN {TrimSpace(x[k].s) : k \in hits}
             ELSE FirstNonEmptyOf({findStringDeep(x[k], wanted) : k \in DOMAIN x})

RECURSIVE pickStringFrom(_, _, _)
\* pickString(m, keys...): the keys are tried in the order of the call
pickStringFrom(x, keys, i) ==
    IF i > Len(keys) THEN ""
    ELSE IF /\ keys[i] \in DOMAIN x
            /\ x[keys[i]].kind = "string"
            /\ TrimSpace(x[keys[i]].s) # ""
         THEN TrimSpace(x[keys[i]].s)
         ELSE pickStringFrom(x, keys, i + 1)

pickString(x, keys) == pickStringFrom(x, keys, 1)

\* normalizeMAC: lower case, "-" replaced by ":"
normalizeMAC(s) ==
    CASE s = "AA-BB-CC-00-00-07" -> "aa:bb:cc:00:00:07"
      [] s = " "                 -> ""
      [] OTHER                   -> s

SummaryCGI == "/cgi-bin/summary.cgi"
StatsCGI   == "/cgi-bin/stats.cgi"
SysInfoCGI == "/cgi-bin/get_system_info.cgi"

ModelKeys == <<"model", "Model", "miner_type", "type", "minerType", "minertype", "minerType">>
MACKeys   == <<"mac", "Mac", "macaddr", "mac_addr", "mac_address", "MAC", "MacAddr">>
DeepMACKeys     == {"mac", "macaddr", "mac_address", "macaddr0", "mac0"}
VnishModelKeys  == {"model", "type", "miner_type", "device", "product"}
WhatsModelKeys  == {"model", "type", "miner_type", "product", "miner_model"}

\* m["INFO"].(map[string]any)["type"].(string), trimmed
InfoType(responses, ep) ==
    IF ep \notin DOMAIN responses THEN ""
    ELSE LET v == responses[ep].doc IN
         IF v.kind = "object" /\ "INFO" \in DOMAIN v.o /\ v.o["INFO"].kind = "object"
            /\ "type" \in DOMAIN v.o["INFO"].o /\ v.o["INFO"].o["type"].kind = "string"
         THEN TrimSpace(v.o["INFO"].o["type"].s)
         ELSE ""

\* the model after the summary.cgi and stats.cgi blocks
ModelOfInfo(responses) ==
    IF InfoType(responses, SummaryCGI) # "" THEN InfoType(responses, SummaryCGI)
    ELSE InfoType(responses, StatsCGI)

HasSysInfo(responses) ==
    SysInfoCGI \in DOMAIN responses /\ responses[SysInfoCGI].doc.kind = "object"

\* the model after the get_system_info.cgi block: f.Model = pickString(m, ...)
ModelOfSysInfo(responses) ==
    IF HasSysInfo(responses)
    THEN pickString(responses[SysInfoCGI].doc.o, ModelKeys)
    ELSE ModelOfInfo(responses)

\* the raw bodies are kept as the set of family names found in them in upper
\* case; no family name of the inputs is split over two bodies
RawHas(responses, pat) == \E ep \in DOMAIN responses : pat \in responses[ep].raw

\* "Antminer SOC": the placeholder some firmwares report
IsPlaceholder(model) == model = "" \/ model = "Antminer SOC"

\* the heuristic over res.Raw
ModelOfRaw(responses, model) ==
    IF ~IsPlaceholder(model) THEN model
    ELSE CASE RawHas(responses, "S21 PRO") -> "Antminer S21 Pro"
           [] RawHas(responses, " S21")    -> "Antminer S21"
           [] RawHas(responses, " S19")    -> "Antminer S19"
           [] RawHas(responses, " L7")     -> "Antminer L7"
           [] RawHas(responses, " KS5 PRO") \/ RawHas(responses, " KS5PRO") -> "Antminer KS5 Pro"
           [] RawHas(responses, " KS5")    -> "Antminer KS5"
           [] OTHER -> model

\* the MAC addresses the get_system_info.cgi block can yield
StockMACs(responses) ==
    IF ~HasSysInfo(responses) THEN {""}
    ELSE LET m == responses[SysInfoCGI].doc IN
         IF normalizeMAC(pickString(m.o, MACKeys)) # ""
         THEN {normalizeMAC(pickString(m.o, MACKeys))}
         ELSE {normalizeMAC(s) : s \in findStringDeep(m, DeepMACKeys)}

\* ExtractFacts(res) of each prober: the Facts it can return (Model and MAC)
ExtractFacts(prober, responses) ==
    CASE prober = "stock" ->
            {[Model |-> ModelOfRaw(responses, ModelOfSysInfo(responses)), MAC |-> mac] :
                 mac \in StockMACs(responses)}
      [] prober = "vnish" ->
            {[Model |-> s, MAC |-> ""] :
                 s \in FirstNonEmptyOf({findStringDeep(responses[ep].doc, VnishModelKeys) :
                                            ep \in DOMAIN responses})}
      [] OTHER ->
            {[Model |-> s, MAC |-> ""] :
                 s \in FirstNonEmptyOf({findStringDeep(responses[ep].doc, WhatsModelKeys) :
                                            ep \in DOMAIN responses})}

\* one answered endpoint: the parsed body and the family names in the raw body
Answer(doc, raw) == [doc |-> doc, raw |-> raw]

InfoS19 == Answer(Obj("INFO" :> Obj("type" :> Str("Antminer S19"))), {" S19"})
InfoT17 == Answer(Obj("INFO" :> Obj("type" :> Str("Antminer T17"))), {})
InfoSOC == Answer(Obj("INFO" :> Obj("type" :> Str("Antminer SOC"))), {})
InfoNone == Answer(Obj("STATUS" :> Str("S")), {})

SysInfos ==
    { Answer(Obj("minertype" :> Str("Antminer S19 Pro") @@ "macaddr" :> Str("AA-BB-CC-00-00-07")),
             {" S19"}),
      Answer(Obj("hostname" :> Str("miner")), {}),
      Answer(Obj("hostname" :> Str("miner")
                 @@ "network" :> Obj("mac" :> Str("aa:bb:cc:00:00:07")
                                     @@ "macaddr0" :> Str("aa:bb:cc:00:00:08"))), {}),
      Answer(Obj("model" :> Str(" ") @@ "MAC0" :> Str("AA-BB-CC-00-00-07")), {}),
      Answer(Str("ok"), {}) }

StockResponses ==
    { s @@ t @@ g :
        s \in {<< >>} \cup {SummaryCGI :> a : a \in {InfoS19, InfoT17, InfoSOC, InfoNone}},
        t \in {<< >>} \cup {StatsCGI :> a : a \in {InfoS19, InfoT17, InfoNone}},
        g \in {<< >>} \cup {SysInfoCGI :> a : a \in SysInfos} }

ApiDocs ==
    { Answer(Obj("model" :> Str("Antminer S19")), {}),
      Answer(Obj("miner" :> Obj("type" :> Str("S19 (vnish)"))), {}),
      Answer(Obj("miner" :> Obj("type" :> Str("S19 (vnish)") @@ "product" :> Str("S19j"))), {}),
      Answer(Obj("status" :> Str("ok")), {}) }

ApiResponses ==
    { a @@ b : a \in {<< >>} \cup {"/api/v1/info" :> d : d \in ApiDocs},
               b \in {<< >>} \cup {"/api/v1/summary" :> d : d \in ApiDocs} }

ExtractCalls ==
    {[prober |-> "stock", responses |-> r] : r \in StockResponses}
    \cup {[prober |-> p, responses |-> r] : p \in {"vnish", "whatsminer"}, r \in ApiResponses}

\* ExtractFacts is called on the ProbeResult once more
ExtractFactsCall ==
    /\ Len(out) < MaxCalls
    /\ \E f \in ExtractFacts(arg.prober, arg.responses) : out' = Append(out, f)
    /\ UNCHANGED <<regVars, probeVars, sseVars, apiVars, scanVars, addrVars, arg, fpc>>

InitExtract == NoHost /\ InitScan({<< >>}) /\ InitAddr({Blank}) /\ InitCall(ExtractCalls)

NextExtract == ExtractFactsCall

SpecExtract == InitExtract /\ [][NextExtract]_vars

\* C39 (as claimed): for the same ProbeResult ExtractFacts of each prober
\* returns the same Facts on every call, whatever the order in which the
\* response map and the keys of the nested objects are visited.
C39_SameFactsEveryCall ==
    \A i, j \in 1..Len(out) : out[i] = out[j]

\* C40 (as claimed): when summary.cgi or stats.cgi carries a non-empty
\* INFO.type, the Model that the stock ExtractFacts returns is not empty,
\* whatever get_system_info.cgi returned.
C40_InfoTypeGivesModel ==
    (arg.prober = "stock" /\ ModelOfInfo(arg.responses) # "") =>
        \A i \in 1..Len(out) : out[i].Model # ""

\* the requests that a step has added to probeCh
AddedToQueue == {probeCh'[i] : i \in (Len(probeCh) + 1)..Len(probeCh')}

\* C38 (as claimed): a call of enqueueProbe that drops its request because
\* probeCh is full leaves the IP's entry of probeNext as it was: probeNext
\* changes for an IP only in a step that puts a request for it into probeCh.
C38_DropKeepsNext ==
    [][\A ip \in IPs : probeNext'[ip] # probeNext[ip] => ip \in AddedToQueue]_vars
====
